---- MODULE Spec2Model ----
(***************************************************************************)
(* Verification model of the crypto-futures-dashboard backend              *)
(* (backend/src/futuresboard): the ingestion pipeline (bounded queue,      *)
(* db_writer consumer, metrics table), the regime / context stages of the  *)
(* quant engine, and the numeric helpers zscore and safe_corrcoef.         *)
(*                                                                         *)
(* Numbers: floats are modelled in fixed point, one unit = 0.001           *)
(* ("milli"); Python None is the empty sequence <<>> and a present value x *)
(* is <<x>> wherever a field is optional.                                  *)
(***************************************************************************)
EXTENDS Integers, Sequences, FiniteSets, TLC

VARIABLES
    \* ---- ingestion pipeline (app.py) ----
    queue,              \* asyncio.Queue contents, oldest first
    produced,           \* number of on_message_callback invocations so far
    dropped,            \* number of "queue full - dropping payload" warnings
    buffer,             \* db_writer.buffer
    last_flush,         \* db_writer.last_flush
    to_flush,           \* the batch handed to an in-progress db_writer_worker
    w_pc,               \* suspension point of the db_writer task
    now,                \* time.time(), in seconds
    metrics,            \* rows of the metrics table, in insertion (id) order
    utc,                \* last reading of datetime.utcnow(), clock-resolution units
    polls,              \* number of completed rest_collector cycles
    flush_calls,        \* number of flush_coro() invocations of safe_loop_template
    final_worker_calls, \* number of db_writer_worker calls made by flush_remaining
    final_batch,        \* what flush_remaining handed to db_writer_worker
    cancel_at,          \* suspension point at which the cancellation arrived
    cancel_buffer,      \* db_writer.buffer at the moment of cancellation
    \* ---- regime stage (quant_engine.py) ----
    quant_regimes,      \* rows of quant_regimes, in insertion order
    regime_rows,        \* the rows the last regime iteration fetched, per symbol
    \* ---- context score + transition detector ----
    ctx_latest,         \* latest quant_context_scores bias per symbol
    ctx_scores,         \* latest quant_context_scores row per symbol
    prev_biases,        \* context_trends prev_biases map
    transitions,        \* rows of quant_context_trends, in insertion order
    seen,               \* per symbol, the biases the detector evaluated, in order
    \* ---- pure helpers ----
    z_rows,             \* history rows given to the composite z-score
    z_out,              \* result of the composite computation
    cc_a, cc_b,         \* the two series given to safe_corrcoef
    cc_out,             \* result of safe_corrcoef
    \* ---- stream manager (ws_manager.py) ----
    manager_tasks,      \* _manager_tasks: the connection tasks, one record each
    manager_session,    \* _manager_session: None or the open ClientSession
    manager_stop,       \* _manager_stop: None or the stop Event
    manager_symbols,    \* _manager_symbols
    start_pending,      \* start_all calls that have not yet run their body
    stop_pc,            \* suspension point of the stop_all call holding the lock
    start_calls,        \* number of start_all calls that returned
    stop_calls,         \* number of stop_all calls that returned
    sessions_opened,    \* number of ClientSession objects created
    connect_budget,     \* ws_connect attempts the environment still performs
    frame_budget,       \* TEXT frames the environment still sends
    frames_read,        \* number of TEXT frames received on all connections
    last_frame,         \* the last TEXT frame received and the task that read it
    dispatched,         \* number of callback tasks created
    cb_running,         \* callback tasks that have not finished
    cb_failures,        \* callback tasks that ended with an exception
    \* ---- snapshot poller (rest_collector.py) ----
    rc_pc,              \* where the rest_collector.run task is
    rc_starts,          \* number of poll_loop() calls made by run
    rc_cooldowns,       \* number of cooldown sleeps of run
    rc_cycle_failures,  \* number of poll cycles that ended in "except Exception"
    fs_fail,            \* fetch_symbol: the sub-calls whose request or decoding raises
    fs_out,             \* fetch_symbol: the returned dict
    \* ---- one save_metrics_v3_async call with rows the server may reject ----
    db_insert_batch,    \* the DB_INSERT_BATCH environment setting
    sv_items,           \* the metric dicts given to the call
    sv_state,           \* "idle", "pending" (called) or "done" (returned)
    sv_saved,           \* the value the call returned
    \* ---- one call of a function of the engine: its arguments and result ----
    fn_args,            \* the arguments of the call
    fn_out,             \* None while the call has not returned, else its result
    \* ---- compute_quant_metrics: the per-symbol tasks and their semaphore ----
    lim_pool_max,       \* db.POOL_MAX_SIZE
    lim_waiting,        \* process_symbol tasks waiting for the semaphore
    lim_history,        \* tasks inside, awaiting get_metrics_by_symbol_async
    lim_compute,        \* tasks inside, awaiting _process_symbol_sync in a thread
    lim_done,           \* tasks that have left the semaphore
    \* ---- safe_loop_runner: the engine's loop tasks ----
    loop_pc,            \* per loop task: "none", "iter" (inside iteration_coro), "sleep" or "done"
    loop_fails,         \* per loop task: iterations that ended with an exception
    loop_cancel,        \* per loop task: task.cancel() was called and not yet delivered
    loops_main,         \* the task that started the loops: "idle", "running", "cancelling", "gathered"
    \* ---- the stage loops of one symbol, from diagnostics to context score ----
    ch_diag,            \* latest quant_diagnostics row of the symbol, or None
    ch_sig,             \* latest quant_signals rows of the symbol (family -> row), or None
    ch_conf,            \* latest quant_confluence row of the symbol, or None
    ch_regime,          \* latest quant_regimes regime of the symbol, or None
    ch_bias,            \* latest quant_context_scores bias of the symbol, or None
    ch_ran,             \* the stage loops that have run in the current interval
    ch_intervals,       \* whole intervals elapsed since the features changed
    \* ---- the connection pool and the operations that need it (db.py) ----
    db_pool,            \* db._pool: "none", "open" or "closed"
    pool_gen,           \* number of pools created so far
    db_up,              \* whether asyncpg.create_pool succeeds at present
    pool_events,        \* number of changes made by the environment
    op_pc,              \* per operation: "idle", "ensure", "acquire", "ok" or "error"
    op_attempt,         \* per operation: the reconnect attempt of ensure_connected
    op_missing,         \* per operation: the pool was missing or closed when it was invoked
    op_gen0,            \* per operation: pool_gen when it was invoked
    op_ran,             \* per operation: the pool it ran against (0: none)
    op_calls,           \* per operation: number of invocations
    caller_pc,          \* per operation: the loop that invokes it, "running" or "dead"
    \* ---- stop and restart of the transition detector ----
    trend_host,         \* which detector runs: app.context_trends_iteration or quant_engine.context_trends_loop
    trend_task,         \* the detector's task: running or stopped
    trend_first,        \* symbols not evaluated yet since the last restart
    trend_restarts,     \* restarts so far
    \* ---- the snapshot poller's fetch tasks and their limiter ----
    rest_sem,           \* the value of rest_collector._sem
    ft_pc,              \* where each fetch_symbol task of the current poll is
    ft_call,            \* the sub-call a task inside the limiter is at
    ft_rounds,          \* polls started so far
    ft_cancel,          \* TRUE once poll_loop has been cancelled
    \* ---- compute_quant_metrics: the per-symbol outcomes of one call ----
    qm_pc,              \* where each process_symbol task of one compute_quant_metrics call is
    qm_reads,           \* history reads made for each symbol in the call
    qm_result,          \* what each process_symbol task returned
    qm_returned,        \* the list compute_quant_metrics returned, once it has
    qm_stored,          \* the quant_features rows the call committed
    \* ---- app.shutdown ----
    sd_pc,              \* where app.shutdown is
    sd_ws,              \* the stream manager: off, running, stopping or stopped
    sd_tasks,           \* the tracked tasks (bg_tasks and pipeline_task): running, cancelling, flushing or done
    sd_buffer,          \* TRUE while db_writer's buffer holds payloads
    sd_final_flushes,   \* final flushes of db_writer that have completed
    sd_pool,            \* the persistence pool: open or closed
    \* ---- concurrent callers of ensure_connected and init_db_async ----
    in_pc,              \* where each caller of a persistence operation is
    in_attempt,         \* the reconnect attempt of ensure_connected each caller is in
    in_lock,            \* the caller holding _init_lock, 0 when it is free
    in_pool,            \* _pool: none, closed or open
    in_tables,          \* TRUE once init_db_async has created the tables on the current pool
    in_created,         \* pools created by create_pool
    in_early            \* callers that ran their query before the tables were created

pipeVars == <<queue, produced, dropped, buffer, last_flush, to_flush, w_pc, now,
              metrics, utc, polls, flush_calls, final_worker_calls, final_batch,
              cancel_at, cancel_buffer>>
regimeVars == <<quant_regimes, regime_rows>>
ctxVars == <<ctx_latest, ctx_scores, prev_biases, transitions, seen>>
zVars == <<z_rows, z_out>>
ccVars == <<cc_a, cc_b, cc_out>>
wsVars == <<manager_tasks, manager_session, manager_stop, manager_symbols,
           start_pending, stop_pc, start_calls, stop_calls, sessions_opened,
           connect_budget, frame_budget, frames_read, last_frame, dispatched,
           cb_running, cb_failures>>
coreVars == <<pipeVars, regimeVars, ctxVars, zVars, ccVars>>
restVars == <<rc_pc, rc_starts, rc_cooldowns, rc_cycle_failures>>
fetchVars == <<fs_fail, fs_out>>
saveVars == <<db_insert_batch, sv_items, sv_state, sv_saved>>
callVars == <<fn_args, fn_out>>
limVars == <<lim_pool_max, lim_waiting, lim_history, lim_compute, lim_done>>
loopVars == <<loop_pc, loop_fails, loop_cancel, loops_main>>
chainVars == <<ch_diag, ch_sig, ch_conf, ch_regime, ch_bias, ch_ran, ch_intervals>>
poolVars == <<db_pool, pool_gen, db_up, pool_events, op_pc, op_attempt, op_missing, op_gen0, op_ran, op_calls, caller_pc>>
trendVars == <<trend_host, trend_task, trend_first, trend_restarts>>
gateVars == <<rest_sem, ft_pc, ft_call, ft_rounds, ft_cancel>>
qmVars == <<qm_pc, qm_reads, qm_result, qm_returned, qm_stored>>
sdVars == <<sd_pc, sd_ws, sd_tasks, sd_buffer, sd_final_flushes, sd_pool>>
initVars == <<in_pc, in_attempt, in_lock, in_pool, in_tables, in_created, in_early>>
engVars == <<callVars, limVars, loopVars, chainVars, poolVars, trendVars, gateVars, qmVars, sdVars, initVars>>
extVars == <<wsVars, restVars, fetchVars, saveVars, engVars>>
nonWsVars == <<coreVars, restVars, fetchVars, saveVars, engVars>>
nonRestVars == <<coreVars, wsVars, fetchVars, saveVars, engVars>>
nonFetchVars == <<coreVars, wsVars, restVars, saveVars, engVars>>
ioVars == <<wsVars, restVars, fetchVars, saveVars>>
nonCallVars == <<coreVars, ioVars, limVars, loopVars, chainVars, poolVars, trendVars, gateVars, qmVars, sdVars, initVars>>
nonLimVars == <<coreVars, ioVars, callVars, loopVars, chainVars, poolVars, trendVars, gateVars, qmVars, sdVars, initVars>>
nonLoopVars == <<coreVars, ioVars, callVars, limVars, chainVars, poolVars, trendVars, gateVars, qmVars, sdVars, initVars>>
nonChainVars == <<coreVars, ioVars, callVars, limVars, loopVars, poolVars, trendVars, gateVars, qmVars, sdVars, initVars>>
nonPoolVars == <<coreVars, ioVars, callVars, limVars, loopVars, chainVars, trendVars, gateVars, qmVars, sdVars, initVars>>
nonTrendVars == <<coreVars, ioVars, callVars, limVars, loopVars, chainVars, poolVars, gateVars, qmVars, sdVars, initVars>>
nonGateVars == <<coreVars, ioVars, callVars, limVars, loopVars, chainVars, poolVars, trendVars, qmVars, sdVars, initVars>>
nonQmVars == <<coreVars, ioVars, callVars, limVars, loopVars, chainVars, poolVars, trendVars, gateVars, sdVars, initVars>>
nonSdVars == <<coreVars, ioVars, callVars, limVars, loopVars, chainVars, poolVars, trendVars, gateVars, qmVars, initVars>>
nonInitVars == <<coreVars, ioVars, callVars, limVars, loopVars, chainVars, poolVars, trendVars, gateVars, qmVars, sdVars>>
vars == <<coreVars, extVars>>

None == <<>>
Some(x) == <<x>>
Val(o) == o[1]

Symbols == {"BTCUSDT", "ETHUSDT"}

RECURSIVE SumSeq(_)
SumSeq(s) == IF s = <<>> THEN 0 ELSE Head(s) + SumSeq(Tail(s))

Abs(x) == IF x < 0 THEN -x ELSE x

(***************************************************************************)
(* Bounds of the model                                                     *)
(***************************************************************************)
QueueMax == 2
BatchSize == 2
MaxEvents == 3
MaxTime == 3
MaxPolls == 1
MaxUtc == 2

FlushInterval == 1

(***************************************************************************)
(* Ingestion pipeline                                                      *)
(***************************************************************************)
PipeInit ==
    /\ queue = <<>>
    /\ produced = 0
    /\ dropped = 0
    /\ buffer = <<>>
    /\ last_flush = 0
    /\ to_flush = <<>>
    /\ w_pc = "get"
    /\ now = 0
    /\ metrics = <<>>
    /\ utc = 0
    /\ polls = 0
    /\ flush_calls = 0
    /\ final_worker_calls = 0
    /\ final_batch = <<>>
    /\ cancel_at = "none"
    /\ cancel_buffer = <<>>

\* queue.put_nowait(record): raises QueueFull when the queue holds maxsize items
PutNowaitUnbounded(q, rec) == [full |-> FALSE, q |-> Append(q, rec)]

put_nowait(q, rec) ==
    IF Len(q) >= QueueMax
    THEN [full |-> TRUE, q |-> q]
    ELSE [full |-> FALSE, q |-> Append(q, rec)]

\* on_message_callback(payload): build the record, put_nowait, warn on QueueFull
on_message_callback(sym) ==
    /\ produced < MaxEvents
    /\ LET r == put_nowait(queue, [symbol |-> sym, n |-> produced + 1])
       IN /\ queue' = r.q
          /\ dropped' = IF r.full THEN dropped + 1 ELSE dropped
    /\ produced' = produced + 1
    /\ UNCHANGED <<buffer, last_flush, to_flush, w_pc, now, metrics, utc, polls,
                   flush_calls, final_worker_calls, final_batch, cancel_at,
                   cancel_buffer>>
    /\ UNCHANGED <<regimeVars, ctxVars, zVars, ccVars, extVars>>

\* time.time() advances
Tick ==
    /\ now < MaxTime
    /\ now' = now + 1
    /\ UNCHANGED <<queue, produced, dropped, buffer, last_flush, to_flush, w_pc,
                   metrics, utc, polls, flush_calls, final_worker_calls,
                   final_batch, cancel_at, cancel_buffer>>
    /\ UNCHANGED <<regimeVars, ctxVars, zVars, ccVars, extVars>>

\* save_metrics_v3_async, row preparation: one row per dict, each stamped with
\* datetime.utcnow() read while the row is prepared.  adv[i] = 1 when the clock
\* reading advanced since the previous reading, 0 when it is the same reading.
\* A row is "bad" when the server rejects its INSERT (raw_json text that is
\* not valid JSON for the jsonb column, such as a NaN token).
IsBad(item) == "bad" \in DOMAIN item /\ item.bad

RECURSIVE StampRows(_, _, _, _)
StampRows(items, adv, t, src) ==
    IF items = <<>> THEN <<>>
    ELSE LET t1 == t + Head(adv)
         IN <<[symbol |-> Head(items).symbol, timeframe |-> "1m",
               updated_at |-> t1, src |-> src, n |-> Head(items).n,
               bad |-> IsBad(Head(items))]>>
            \o StampRows(Tail(items), Tail(adv), t1, src)

\* the transaction of one call: the rows inserted so far, and whether a
\* statement has failed in it (after which the server refuses every statement
\* until the transaction ends)
NewTx == [rows |-> <<>>, aborted |-> FALSE]

AnyBad(rows) == \E i \in 1..Len(rows) : rows[i].bad

\* a statement fails on the server inside the transaction
StatementFailed(tx) == [tx EXCEPT !.aborted = TRUE]

\* conn.execute(INSERT_SQL, *row) of the fallback, its exception caught
ExecuteRow(tx, row) ==
    IF tx.aborted THEN tx
    ELSE IF row.bad THEN StatementFailed(tx)
    ELSE [tx EXCEPT !.rows = Append(tx.rows, row)]

RECURSIVE RowByRow(_, _)
RowByRow(tx, chunk) ==
    IF chunk = <<>> THEN tx
    ELSE RowByRow(ExecuteRow(tx, Head(chunk)), Tail(chunk))

\* conn.executemany(INSERT_SQL, chunk), and the row-by-row fallback when it
\* raises
InsertChunk(tx, chunk) ==
    IF ~tx.aborted /\ ~AnyBad(chunk)
    THEN [tx EXCEPT !.rows = tx.rows \o chunk]
    ELSE RowByRow(IF tx.aborted THEN tx ELSE StatementFailed(tx), chunk)

RECURSIVE InsertChunks(_, _, _)
InsertChunks(tx, values, batch) ==
    IF values = <<>> THEN tx
    ELSE LET k == IF Len(values) < batch THEN Len(values) ELSE batch
         IN InsertChunks(InsertChunk(tx, SubSeq(values, 1, k)),
                         SubSeq(values, k + 1, Len(values)), batch)

\* leaving "async with conn.transaction()" without an exception: COMMIT, which
\* the server turns into a rollback when the transaction is aborted
Commit(tx) == IF tx.aborted THEN <<>> ELSE tx.rows

save_metrics_v3_async(items, adv, src) ==
    /\ utc + SumSeq(adv) <= MaxUtc
    /\ metrics' = metrics \o
           Commit(InsertChunks(NewTx, StampRows(items, adv, utc, src),
                               db_insert_batch))
    /\ utc' = utc + SumSeq(adv)

\* the value save_metrics_v3_async returns: "saved += 1" for every row
\* appended to values, before any INSERT is sent
SavedCount(items, adv, src) == Len(StampRows(items, adv, utc, src))

Advances(k) == [1..k -> {0, 1}]

\* db_writer.loop_iteration up to its first suspension after q.get() returned
WriterGet ==
    /\ w_pc = "get"
    /\ queue # <<>>
    /\ queue' = Tail(queue)
    /\ LET buf == Append(buffer, Head(queue))
       IN IF Len(buf) >= BatchSize \/ (now - last_flush) > FlushInterval
          THEN /\ to_flush' = buf
               /\ buffer' = <<>>
               /\ last_flush' = now
               /\ w_pc' = "flush"
          ELSE /\ buffer' = buf
               /\ w_pc' = "sleep"
               /\ UNCHANGED <<to_flush, last_flush>>
    /\ UNCHANGED <<produced, dropped, now, metrics, utc, polls, flush_calls,
                   final_worker_calls, final_batch, cancel_at, cancel_buffer>>
    /\ UNCHANGED <<regimeVars, ctxVars, zVars, ccVars, extVars>>

\* the in-progress db_writer_worker(to_flush) of loop_iteration completes
WriterFlushDone ==
    /\ w_pc = "flush"
    /\ \E adv \in Advances(Len(to_flush)) :
          save_metrics_v3_async(to_flush, adv, "ws")
    /\ to_flush' = <<>>
    /\ w_pc' = "sleep"
    /\ UNCHANGED <<queue, produced, dropped, buffer, last_flush, now, polls,
                   flush_calls, final_worker_calls, final_batch, cancel_at,
                   cancel_buffer>>
    /\ UNCHANGED <<regimeVars, ctxVars, zVars, ccVars, extVars>>

\* asyncio.sleep(interval) of safe_loop_template returns
WriterWake ==
    /\ w_pc = "sleep"
    /\ w_pc' = "get"
    /\ UNCHANGED <<queue, produced, dropped, buffer, last_flush, to_flush, now,
                   metrics, utc, polls, flush_calls, final_worker_calls,
                   final_batch, cancel_at, cancel_buffer>>
    /\ UNCHANGED <<regimeVars, ctxVars, zVars, ccVars, extVars>>

\* a variant of the cancellation path that flushes in the inner handler and
\* again in the outer one
CancelFlushTwice ==
    /\ w_pc \in {"get", "flush", "sleep"}
    /\ cancel_at' = w_pc
    /\ cancel_buffer' = buffer
    /\ to_flush' = <<>>
    /\ flush_calls' = flush_calls + 2
    /\ IF buffer # <<>>
       THEN /\ final_batch' = buffer
            /\ final_worker_calls' = final_worker_calls + 1
            /\ w_pc' = "final"
       ELSE /\ w_pc' = "done"
            /\ UNCHANGED <<final_batch, final_worker_calls>>
    /\ UNCHANGED <<queue, produced, dropped, buffer, last_flush, now, metrics, utc,
                   polls>>
    /\ UNCHANGED <<regimeVars, ctxVars, zVars, ccVars, extVars>>

\* task.cancel() delivered at the suspension point the task is waiting in:
\* safe_loop_template re-raises out of the loop, the outer handler calls
\* flush_coro() = flush_remaining() once; an in-progress db_writer_worker is
\* abandoned (CancelledError is not an Exception).
Cancel ==
    /\ w_pc \in {"get", "flush", "sleep"}
    /\ cancel_at' = w_pc
    /\ cancel_buffer' = buffer
    /\ to_flush' = <<>>
    /\ flush_calls' = flush_calls + 1
    /\ IF buffer # <<>>
       THEN /\ final_batch' = buffer
            /\ final_worker_calls' = final_worker_calls + 1
            /\ w_pc' = "final"
       ELSE /\ w_pc' = "done"
            /\ UNCHANGED <<final_batch, final_worker_calls>>
    /\ UNCHANGED <<queue, produced, dropped, buffer, last_flush, now, metrics, utc,
                   polls>>
    /\ UNCHANGED <<regimeVars, ctxVars, zVars, ccVars, extVars>>

\* flush_remaining: db_writer_worker(buffer) completes, then buffer.clear()
FinalFlushDone ==
    /\ w_pc = "final"
    /\ \E adv \in Advances(Len(buffer)) :
          save_metrics_v3_async(buffer, adv, "ws")
    /\ buffer' = <<>>
    /\ w_pc' = "done"
    /\ UNCHANGED <<queue, produced, dropped, last_flush, to_flush, now, polls,
                   flush_calls, final_worker_calls, final_batch, cancel_at,
                   cancel_buffer>>
    /\ UNCHANGED <<regimeVars, ctxVars, zVars, ccVars, extVars>>

\* ---- a save_metrics_v3_async call on its own ----
MaxSaveRows == 3
MaxBatch == 2

DB_INSERT_BATCH == 200

IdleSave ==
    /\ db_insert_batch = DB_INSERT_BATCH
    /\ sv_items = <<>>
    /\ sv_state = "idle"
    /\ sv_saved = 0

SaveItems ==
    UNION {{items \in [1..k -> [symbol : Symbols, n : 1..k, bad : BOOLEAN]] :
               \A i \in 1..k : items[i].n = i} : k \in 1..MaxSaveRows}

SaveInit ==
    /\ db_insert_batch \in 1..MaxBatch
    /\ sv_items \in SaveItems
    /\ sv_state = "pending"
    /\ sv_saved = 0

SaveMetricsCall ==
    /\ sv_state = "pending"
    /\ \E adv \in Advances(Len(sv_items)) :
          /\ save_metrics_v3_async(sv_items, adv, "ws")
          /\ sv_saved' = SavedCount(sv_items, adv, "ws")
    /\ sv_state' = "done"
    /\ UNCHANGED <<db_insert_batch, sv_items>>
    /\ UNCHANGED <<queue, produced, dropped, buffer, last_flush, to_flush, w_pc,
                   now, polls, flush_calls, final_worker_calls, final_batch,
                   cancel_at, cancel_buffer>>
    /\ UNCHANGED <<regimeVars, ctxVars, zVars, ccVars, wsVars, restVars, fetchVars,
                   engVars>>

\* ---- rest_collector.run and poll_loop ----
MaxRestStarts == 3
MaxCycleFailures == 2

\* run() has called poll_loop(), which awaits db.init_db_async()
RestInit ==
    /\ rc_pc = "init"
    /\ rc_starts = 1
    /\ rc_cooldowns = 0
    /\ rc_cycle_failures = 0

\* init_db_async succeeded and the session is open: the first cycle starts
RestInitOk ==
    /\ rc_pc = "init"
    /\ rc_pc' = "polling"
    /\ UNCHANGED <<rc_starts, rc_cooldowns, rc_cycle_failures>>
    /\ UNCHANGED nonRestVars

\* init_db_async raised: poll_loop logs and returns, and the "while True" of
\* run calls poll_loop() again
RestInitFail ==
    /\ rc_pc = "init"
    /\ rc_starts < MaxRestStarts
    /\ rc_starts' = rc_starts + 1
    /\ UNCHANGED <<rc_pc, rc_cooldowns, rc_cycle_failures>>
    /\ UNCHANGED nonRestVars

\* an exception leaves poll_loop (outside the cycle's try block): run logs it
\* and awaits asyncio.sleep(10)
RestLoopCrash ==
    /\ rc_pc = "init"
    /\ rc_pc' = "cooldown"
    /\ rc_cooldowns' = rc_cooldowns + 1
    /\ UNCHANGED <<rc_starts, rc_cycle_failures>>
    /\ UNCHANGED nonRestVars

\* the cooldown of run is over: poll_loop() is called again
RestCooldownDone ==
    /\ rc_pc = "cooldown"
    /\ rc_starts < MaxRestStarts
    /\ rc_pc' = "init"
    /\ rc_starts' = rc_starts + 1
    /\ UNCHANGED <<rc_cooldowns, rc_cycle_failures>>
    /\ UNCHANGED nonRestVars

\* ---- fetch_symbol ----
\* the REST sub-calls in the order fetch_symbol issues them
SubCalls ==
    <<"ticker/24hr", "openInterest", "premiumIndex",
      "globalLongShortAccountRatio", "openInterestHist",
      "topLongShortAccountRatio", "topLongShortPositionRatio">>

SubCallSet == {SubCalls[i] : i \in 1..Len(SubCalls)}

\* the first three have no try block of their own
Unguarded == {SubCalls[i] : i \in 1..3}

\* the keys of "out" a sub-call sets
FieldsOf(c) ==
    IF c = "ticker/24hr" THEN {"open", "high", "low", "close", "volume", "trades"}
    ELSE IF c = "openInterest" THEN {"oi"}
    ELSE IF c = "premiumIndex" THEN {"mark_price", "funding_rate"}
    ELSE IF c = "globalLongShortAccountRatio" THEN {"global_long_short_ratio"}
    ELSE IF c = "openInterestHist" THEN {"open_interest_hist_usd"}
    ELSE IF c = "topLongShortAccountRatio" THEN {"top_trader_account_ratio"}
    ELSE {"top_trader_long_short_ratio"}

\* fetch_symbol, sub-call by sub-call: out starts as {ts, symbol}; an
\* exception of an unguarded sub-call goes to the outer handler, which sets
\* "error" and ends the fetch; an exception of a guarded one is passed over
RECURSIVE FetchFrom(_, _, _)
FetchFrom(i, fail, out) ==
    IF i > Len(SubCalls) THEN out
    ELSE LET c == SubCalls[i]
             sent == [out EXCEPT !.issued = out.issued \cup {c}]
         IN IF fail[c]
            THEN IF c \in Unguarded
                 THEN [sent EXCEPT !.keys = sent.keys \cup {"error"}]
                 ELSE FetchFrom(i + 1, fail, sent)
            ELSE FetchFrom(i + 1, fail,
                           [sent EXCEPT !.keys = sent.keys \cup FieldsOf(c)])

fetch_symbol(fail) == FetchFrom(1, fail, [issued |-> {}, keys |-> {"ts", "symbol"}])

IdleFetch ==
    /\ fs_fail = [c \in SubCallSet |-> FALSE]
    /\ fs_out = None

FetchInit ==
    /\ fs_fail \in [SubCallSet -> BOOLEAN]
    /\ fs_out = None

FetchSymbol ==
    /\ fs_out = None
    /\ fs_out' = Some(fetch_symbol(fs_fail))
    /\ UNCHANGED fs_fail
    /\ UNCHANGED nonFetchVars

\* one rest_collector cycle: a merged metrics row per symbol, written with
\* save_metrics_v3_async; then asyncio.sleep(POLL_INTERVAL)
PollSymbols == <<"BTCUSDT", "ETHUSDT">>

PollCycle ==
    /\ rc_pc = "polling"
    /\ polls < MaxPolls
    /\ \E adv \in Advances(Len(PollSymbols)) :
          save_metrics_v3_async(
              [i \in 1..Len(PollSymbols) |-> [symbol |-> PollSymbols[i], n |-> 0]],
              adv, "rest")
    /\ polls' = polls + 1
    /\ rc_pc' = "sleep"
    /\ UNCHANGED <<rc_starts, rc_cooldowns, rc_cycle_failures>>
    /\ UNCHANGED <<queue, produced, dropped, buffer, last_flush, to_flush, w_pc,
                   now, flush_calls, final_worker_calls, final_batch, cancel_at,
                   cancel_buffer>>
    /\ UNCHANGED <<regimeVars, ctxVars, zVars, ccVars, wsVars, fetchVars, saveVars,
                   engVars>>

\* an exception inside the cycle's try block (a fetch result that cannot be
\* used, insert_batch or save_metrics_v3_async raising): logged, then
\* asyncio.sleep(POLL_INTERVAL)
PollCycleFail ==
    /\ rc_pc = "polling"
    /\ rc_cycle_failures < MaxCycleFailures
    /\ rc_cycle_failures' = rc_cycle_failures + 1
    /\ rc_pc' = "error_sleep"
    /\ UNCHANGED <<rc_starts, rc_cooldowns>>
    /\ UNCHANGED nonRestVars

\* either sleep of the cycle loop is over: the next cycle starts
RestSleepDone ==
    /\ rc_pc \in {"sleep", "error_sleep"}
    /\ rc_pc' = "polling"
    /\ UNCHANGED <<rc_starts, rc_cooldowns, rc_cycle_failures>>
    /\ UNCHANGED nonRestVars

\* the run task is cancelled at whatever it awaits: CancelledError is re-raised
\* by poll_loop and by run
RestCancel ==
    /\ rc_pc # "cancelled"
    /\ rc_pc' = "cancelled"
    /\ UNCHANGED <<rc_starts, rc_cooldowns, rc_cycle_failures>>
    /\ UNCHANGED nonRestVars

RestNext ==
    \/ RestInitOk
    \/ RestInitFail
    \/ RestLoopCrash
    \/ RestCooldownDone
    \/ PollCycle
    \/ PollCycleFail
    \/ RestSleepDone
    \/ RestCancel

Next ==
    \/ \E sym \in Symbols : on_message_callback(sym)
    \/ Tick
    \/ WriterGet
    \/ WriterFlushDone
    \/ WriterWake
    \/ Cancel
    \/ FinalFlushDone
    \/ RestInitOk
    \/ PollCycle
    \/ RestSleepDone

(***************************************************************************)
(* Regime stage (quant_engine.regime_loop)                                 *)
(***************************************************************************)
MaxRegimeRows == 3

\* values of quant_confluence.confluence_score / volatility in the fetched rows
ConfluenceVals == {None, Some(-151), Some(-150), Some(150), Some(151)}
VolatilityVals == {None, Some(24), Some(25)}

RegimeInit ==
    /\ quant_regimes = <<>>
    /\ regime_rows = <<>>

\* float(x or 0)
FloatOr0(o) == IF o = None THEN 0 ELSE Val(o)

\* variants of the classification: a confidence without abs() on the bearish
\* side, inclusive thresholds, and a classifier that keeps a symbol's previous
\* non-neutral regime (hysteresis)
ClassifySigned(sym, c, v) ==
    IF c > 150 /\ v < 25 THEN [regime |-> "accumulation", confidence |-> c]
    ELSE IF c > 150 /\ v >= 25 THEN [regime |-> "expansion", confidence |-> c]
    ELSE IF c < -150 /\ v < 25 THEN [regime |-> "distribution", confidence |-> c]
    ELSE IF c < -150 /\ v >= 25 THEN [regime |-> "exhaustion", confidence |-> c]
    ELSE [regime |-> "neutral", confidence |-> 100]

ClassifyInclusive(sym, c, v) ==
    IF c >= 150 /\ v < 25 THEN [regime |-> "accumulation", confidence |-> c]
    ELSE IF c >= 150 /\ v >= 25 THEN [regime |-> "expansion", confidence |-> c]
    ELSE IF c <= -150 /\ v < 25 THEN [regime |-> "distribution", confidence |-> Abs(c)]
    ELSE IF c <= -150 /\ v >= 25 THEN [regime |-> "exhaustion", confidence |-> Abs(c)]
    ELSE [regime |-> "neutral", confidence |-> 100]

ClassifySticky(sym, c, v) ==
    LET mine == SelectSeq(quant_regimes, LAMBDA r : r.symbol = sym)
    IN IF c > 150 /\ v < 25 THEN [regime |-> "accumulation", confidence |-> c]
       ELSE IF c > 150 /\ v >= 25 THEN [regime |-> "expansion", confidence |-> c]
       ELSE IF c < -150 /\ v < 25 THEN [regime |-> "distribution", confidence |-> Abs(c)]
       ELSE IF c < -150 /\ v >= 25 THEN [regime |-> "exhaustion", confidence |-> Abs(c)]
       ELSE IF mine # <<>> /\ mine[Len(mine)].regime # "neutral"
            THEN [regime |-> mine[Len(mine)].regime, confidence |-> 100]
            ELSE [regime |-> "neutral", confidence |-> 100]

\* the if / elif chain of regime_loop.iteration (thresholds 0.15 and 0.025)
Classify(sym, c, v) ==
    IF c > 150 /\ v < 25 THEN [regime |-> "accumulation", confidence |-> c]
    ELSE IF c > 150 /\ v >= 25 THEN [regime |-> "expansion", confidence |-> c]
    ELSE IF c < -150 /\ v < 25 THEN [regime |-> "distribution", confidence |-> Abs(c)]
    ELSE IF c < -150 /\ v >= 25 THEN [regime |-> "exhaustion", confidence |-> Abs(c)]
    ELSE [regime |-> "neutral", confidence |-> 100]

RegimeRecord(sym, row) ==
    LET c == FloatOr0(row.confluence_score)
        v == FloatOr0(row.volatility)
        k == Classify(sym, c, v)
    IN [symbol |-> sym, confluence_score |-> c, volatility |-> v,
        regime |-> k.regime, confidence |-> k.confidence]

\* rows come back ORDER BY symbol
RECURSIVE RegimeInserts(_, _)
RegimeInserts(order, rows) ==
    IF order = <<>> THEN <<>>
    ELSE IF Head(order) \in DOMAIN rows
         THEN <<RegimeRecord(Head(order), rows[Head(order)])>>
              \o RegimeInserts(Tail(order), rows)
         ELSE RegimeInserts(Tail(order), rows)

SymbolOrder == <<"BTCUSDT", "ETHUSDT">>

ConfluenceRows ==
    [confluence_score : ConfluenceVals, volatility : VolatilityVals]

\* regime_loop.iteration: fetch the latest quant_confluence row of every symbol
\* that has one, classify each, save_quant_regimes_async(inserts)
RegimeIteration ==
    /\ \E S \in SUBSET Symbols :
          /\ S # {}
          /\ Len(quant_regimes) + Cardinality(S) <= MaxRegimeRows
          /\ \E rows \in [S -> ConfluenceRows] :
                /\ regime_rows' = rows
                /\ quant_regimes' = quant_regimes \o RegimeInserts(SymbolOrder, rows)
    /\ UNCHANGED <<pipeVars, ctxVars, zVars, ccVars, extVars>>

(***************************************************************************)
(* Context score (quant_engine.context_scoring_loop) and the bias          *)
(* transition detector (app.context_trends_iteration, the same body as     *)
(* quant_engine.context_trends_loop.iteration)                             *)
(***************************************************************************)
MaxObs == 5

CtxInit ==
    /\ ctx_latest = [s \in Symbols |-> None]
    /\ ctx_scores = [s \in Symbols |-> None]
    /\ prev_biases = [s \in Symbols |-> None]
    /\ transitions = <<>>
    /\ seen = [s \in Symbols |-> <<>>]

\* regime boost in hundredths: substring tests on the lower-cased regime
RegimeBoost(regime) ==
    IF regime = "expansion" THEN 115
    ELSE IF regime = "distribution" THEN 90
    ELSE IF regime = "accumulation" THEN 105
    ELSE 100

\* (0.6 * signal_conf + 0.4 * conf_score) * regime_boost, clamped to [0, 1];
\* signal_conf and conf_score in units of 0.0001, the result in units of
\* 0.0000001
ScoreOne == 10000000

ContextScore(signal_conf, conf_score, regime) ==
    LET sc == FloatOr0(signal_conf)
        cs == FloatOr0(conf_score)
        rg == IF regime = None THEN "neutral" ELSE Val(regime)
        raw == (6 * sc + 4 * cs) * RegimeBoost(rg)
    IN IF raw < 0 THEN 0 ELSE IF raw > ScoreOne THEN ScoreOne ELSE raw

BiasOf(score) ==
    IF score > 6500000 THEN "bullish"
    ELSE IF score < 3500000 THEN "bearish"
    ELSE "neutral"

\* round(context_score, 4): to the nearest 0.0001, a tie to the even digit
Round4(score) ==
    LET q == score \div 1000
        r == score % 1000
    IN IF r > 500 \/ (r = 500 /\ q % 2 = 1) THEN (q + 1) * 1000 ELSE q * 1000

\* one entry of out_rows as save_quant_context_scores_async inserts it
OutRow(row) ==
    LET score == ContextScore(row.signal_conf, row.confluence_score, row.regime)
    IN [context_score |-> Round4(score), bias |-> BiasOf(score)]

\* the joined rows of one context-scoring iteration
SignalConfVals == {Some(6500)}
ConfScoreVals == {None, Some(-10000), Some(6501)}
RegimeVals == {None, Some("expansion")}
ScoringRows ==
    [signal_conf : SignalConfVals, confluence_score : ConfScoreVals,
     regime : RegimeVals]

\* context_scoring_loop.iteration: one context score per symbol that has a
\* signal row; save_quant_context_scores_async(out_rows)
ContextScoringIteration ==
    /\ \E S \in SUBSET Symbols :
          /\ S # {}
          /\ \E rows \in [S -> ScoringRows] :
                /\ ctx_latest' =
                      [s \in Symbols |->
                          IF s \in S THEN Some(OutRow(rows[s]).bias)
                          ELSE ctx_latest[s]]
                /\ ctx_scores' =
                      [s \in Symbols |->
                          IF s \in S THEN Some(OutRow(rows[s]))
                          ELSE ctx_scores[s]]
    /\ UNCHANGED <<prev_biases, transitions, seen>>
    /\ UNCHANGED <<pipeVars, regimeVars, zVars, ccVars, extVars>>

\* a detector that also fires when no previous bias is known
BiasChangedNoPrevCheck(prev, curr) == prev # Some(curr)

\* "if prev_bias and prev_bias != curr_bias"
BiasChanged(prev, curr) == prev # None /\ Val(prev) # curr

\* the remembered bias as it is stored in from_bias
FromBias(prev) == IF prev = None THEN "None" ELSE Val(prev)

RECURSIVE DetectRows(_, _)
DetectRows(order, prev) ==
    IF order = <<>> THEN <<>>
    ELSE LET sym == Head(order)
         IN IF ctx_latest[sym] # None /\ BiasChanged(prev[sym], Val(ctx_latest[sym]))
            THEN <<[symbol |-> sym, from_bias |-> FromBias(prev[sym]),
                    to_bias |-> Val(ctx_latest[sym])]>>
                 \o DetectRows(Tail(order), prev)
            ELSE DetectRows(Tail(order), prev)

SymbolsWithScore == {s \in Symbols : ctx_latest[s] # None}

TotalSeen == SumSeq([i \in 1..Len(SymbolOrder) |-> Len(seen[SymbolOrder[i]])])

\* one iteration of the detector: read the latest bias of every symbol, append
\* a transition where it differs from the remembered one, remember the bias,
\* save_quant_context_trends_async(transitions)
DetectTransitions ==
    /\ SymbolsWithScore # {}
    /\ TotalSeen + Cardinality(SymbolsWithScore) <= MaxObs
    /\ transitions' = transitions \o DetectRows(SymbolOrder, prev_biases)
    /\ prev_biases' = [s \in Symbols |->
                          IF ctx_latest[s] # None THEN ctx_latest[s]
                          ELSE prev_biases[s]]
    /\ seen' = [s \in Symbols |->
                   IF ctx_latest[s] # None
                   THEN Append(seen[s], Val(ctx_latest[s]))
                   ELSE seen[s]]
    /\ UNCHANGED <<ctx_latest, ctx_scores>>

ContextTrendsIteration ==
    /\ DetectTransitions
    /\ UNCHANGED <<pipeVars, regimeVars, zVars, ccVars, extVars>>

(***************************************************************************)
(* Numeric helpers (utils.py) and the composite z-score                    *)
(***************************************************************************)
MaxZRows == 2
MaxCorrLen == 3

\* floor(sqrt(n)) by bisection
RECURSIVE ISqrtBS(_, _, _)
ISqrtBS(n, lo, hi) ==
    IF lo >= hi THEN lo
    ELSE LET mid == (lo + hi + 1) \div 2
         IN IF mid * mid <= n THEN ISqrtBS(n, mid, hi) ELSE ISqrtBS(n, lo, mid - 1)

ISqrt(n) == ISqrtBS(n, 0, IF n < 46340 THEN n ELSE 46340)

\* x / y in milli for a non-negative y, rounded toward zero
DivMilli(x, y) ==
    IF x >= 0 THEN (x * 1000) \div y ELSE -(((-x) * 1000) \div y)

Clean(series) == SelectSeq(series, LAMBDA o : o # None)

RECURSIVE SumVals(_)
SumVals(s) == IF s = <<>> THEN 0 ELSE Val(Head(s)) + SumVals(Tail(s))

RECURSIVE SumSquares(_)
SumSquares(s) == IF s = <<>> THEN 0 ELSE Val(Head(s)) * Val(Head(s)) + SumSquares(Tail(s))

\* n^2 times the population variance of the non-null values
VarN(clean) == Len(clean) * SumSquares(clean) - SumVals(clean) * SumVals(clean)

\* utils.zscore: None for a None entry, for fewer than two non-null values and
\* for sigma = 0; else (x - mu) / sigma, here in milli
zscore(series) ==
    LET clean == Clean(series)
        n == Len(clean)
        total == SumVals(clean)
        varn == VarN(clean)
        sigma == ISqrt(varn * 1000000)
    IN IF n < 2 THEN [i \in 1..Len(series) |-> None]
       ELSE [i \in 1..Len(series) |->
                IF series[i] # None /\ varn > 0
                THEN Some(DivMilli((n * Val(series[i]) - total) * 1000, sigma))
                ELSE None]

Latest(zs) == IF zs = <<>> THEN None ELSE zs[Len(zs)]

Column(rows, f) == [i \in 1..Len(rows) |-> rows[i][f]]

\* a composite that counts a missing component as zero
CompositeZeroFill(z_oi, z_top, z_obi, z_funding) ==
    LET comps == SelectSeq(<<[z |-> z_oi, w |-> 4], [z |-> z_top, w |-> 2],
                             [z |-> z_obi, w |-> 2], [z |-> z_funding, w |-> 2]>>,
                           LAMBDA c : c.z # None)
    IN IF comps # <<>>
       THEN Some([num |-> SumSeq([i \in 1..Len(comps) |-> Val(comps[i].z) * comps[i].w]),
                  den |-> 10])
       ELSE None

\* "zsc composite" of _process_symbol_sync: weights 0.4 / 0.2 / 0.2 / 0.2 in
\* tenths; the quotient is kept as the exact fraction num / den
Composite(z_oi, z_top, z_obi, z_funding) ==
    LET comps == SelectSeq(<<[z |-> z_oi, w |-> 4], [z |-> z_top, w |-> 2],
                             [z |-> z_obi, w |-> 2], [z |-> z_funding, w |-> 2]>>,
                           LAMBDA c : c.z # None)
        weights == [i \in 1..Len(comps) |-> comps[i].w]
    IN IF comps # <<>> /\ SumSeq(weights) > 0
       THEN Some([num |-> SumSeq([i \in 1..Len(comps) |-> Val(comps[i].z) * comps[i].w]),
                  den |-> SumSeq(weights)])
       ELSE None

\* the per-row series _process_symbol_sync extracts: open interest and
\* top-trader ratio as stored; order-book imbalance and funding are either
\* missing in a row or present with a value that rises from row to row
ObiSeries(rows) ==
    [i \in 1..Len(rows) |-> IF rows[i].has_book THEN Some(i) ELSE None]

FundingSeries(rows) ==
    [i \in 1..Len(rows) |-> IF rows[i].has_funding THEN Some(i) ELSE None]

ZComponents(rows) ==
    [oi |-> Latest(zscore(Column(rows, "oi_usd"))),
     top |-> Latest(zscore(Column(rows, "top_ls_accounts"))),
     obi |-> Latest(zscore(ObiSeries(rows))),
     funding |-> Latest(zscore(FundingSeries(rows)))]

ZVals == {None, Some(1), Some(2)}
ZRowSet == [oi_usd : ZVals, top_ls_accounts : ZVals,
            has_book : BOOLEAN, has_funding : BOOLEAN]

ZInit ==
    /\ z_rows \in UNION {[1..n -> ZRowSet] : n \in 1..MaxZRows}
    /\ z_out = None

\* the z-score part of _process_symbol_sync on the rows of one symbol
ProcessSymbolZ ==
    /\ z_out = None
    /\ LET z == ZComponents(z_rows)
       IN z_out' = Some([comps |-> z,
                         zsc |-> Composite(z.oi, z.top, z.obi, z.funding)])
    /\ UNCHANGED z_rows
    /\ UNCHANGED <<pipeVars, regimeVars, ctxVars, ccVars, extVars>>

\* ---- safe_corrcoef ----
\* a series entry is None when it is not finite (None / NaN / inf), else <<x>>
Finite(o) == o # None

MaskIdx(a, b) == {i \in 1..Len(a) : Finite(a[i]) /\ Finite(b[i])}

RECURSIVE Masked(_, _, _)
Masked(s, mask, i) ==
    IF i > Len(s) THEN <<>>
    ELSE IF i \in mask THEN <<s[i]>> \o Masked(s, mask, i + 1)
    ELSE Masked(s, mask, i + 1)

RECURSIVE SumProd(_, _)
SumProd(a, b) ==
    IF a = <<>> THEN 0 ELSE Val(Head(a)) * Val(Head(b)) + SumProd(Tail(a), Tail(b))

\* arr.std() == 0 on finite values
StdIsZero(arr) == VarN(arr) = 0

\* np.corrcoef(a, b)[0, 1]: cov / sqrt(var_a * var_b), NaN when a variance is 0
np_corrcoef(a, b) ==
    LET n == Len(a)
        cov == n * SumProd(a, b) - SumVals(a) * SumVals(b)
        d == VarN(a) * VarN(b)
    IN IF d = 0 THEN [kind |-> "nan", value |-> 0]
       ELSE [kind |-> "number", value |-> DivMilli(cov * 1000, ISqrt(d * 1000000))]

\* variants: no zero-variance guard; no length guard
SafeCorrcoefNoStdGuard(a, b) ==
    IF Len(a) # Len(b) \/ a = <<>> THEN [kind |-> "number", value |-> 0]
    ELSE LET mask == MaskIdx(a, b)
         IN IF mask = {} THEN [kind |-> "number", value |-> 0]
            ELSE np_corrcoef(Masked(a, mask, 1), Masked(b, mask, 1))

safe_corrcoef(a, b) ==
    IF Len(a) # Len(b) \/ a = <<>> THEN [kind |-> "number", value |-> 0]
    ELSE LET mask == MaskIdx(a, b)
         IN IF mask = {} THEN [kind |-> "number", value |-> 0]
            ELSE LET arr_a == Masked(a, mask, 1)
                     arr_b == Masked(b, mask, 1)
                 IN IF StdIsZero(arr_a) \/ StdIsZero(arr_b)
                    THEN [kind |-> "number", value |-> 0]
                    ELSE np_corrcoef(arr_a, arr_b)

CorrVals == {None, Some(0), Some(1), Some(3)}
CorrSeries == UNION {[1..n -> CorrVals] : n \in 0..MaxCorrLen}

CorrInit ==
    /\ cc_a \in CorrSeries
    /\ cc_b \in CorrSeries
    /\ cc_out = None

\* one correlation of compute_quant_diagnostics
ComputeCorr ==
    /\ cc_out = None
    /\ cc_out' = Some(safe_corrcoef(cc_a, cc_b))
    /\ UNCHANGED <<cc_a, cc_b>>
    /\ UNCHANGED <<pipeVars, regimeVars, ctxVars, zVars, extVars>>

(***************************************************************************)
(* Stream manager (ws_manager.py)                                          *)
(***************************************************************************)
MaxPerConn == 3
MaxSymbols == 2
MaxStartCalls == 2
MaxStopCalls == 1
MaxWsAttempts == 1
MaxWsFrames == 1
MaxAttempts == 8
MaxFrames == 2

INITIAL_BACKOFF == 1
MAX_BACKOFF == 60
DEFAULT_STREAMS == <<"ticker", "markPrice", "openInterest", "depth@100ms", "aggTrade">>

\* the symbols start_all falls back to when it is given none
FallbackSymbols == <<"BTCUSDT", "ETHUSDT", "SOLUSDT">>

\* s.strip()
Strip(s) ==
    IF s = " " THEN ""
    ELSE IF s = " ethusdt " THEN "ethusdt"
    ELSE s

\* _norm_for_path: separators removed, lower case
NormForPath(sym) ==
    IF sym = "BTCUSDT" THEN "btcusdt"
    ELSE IF sym = "ETHUSDT" THEN "ethusdt"
    ELSE IF sym = "SOLUSDT" THEN "solusdt"
    ELSE sym

\* _streams_for_symbol: one token "<base>@<stream>" per stream
StreamsForSymbol(sym, streams) ==
    LET st == IF streams = None THEN DEFAULT_STREAMS ELSE Val(streams)
    IN [i \in 1..Len(st) |-> <<NormForPath(sym), st[i]>>]

\* "if not symbols" fallback, then [s.strip() for s in symbols if s and s.strip()]
CleanSymbols(symbols) ==
    LET given == IF symbols = <<>> THEN FallbackSymbols ELSE symbols
        kept == SelectSeq(given, LAMBDA x : x # "" /\ Strip(x) # "")
    IN [i \in 1..Len(kept) |-> Strip(kept[i])]

RECURSIVE AllTokens(_, _)
AllTokens(symbols, streams) ==
    IF symbols = <<>> THEN <<>>
    ELSE StreamsForSymbol(Head(symbols), streams) \o AllTokens(Tail(symbols), streams)

\* a test that lets a group take one token more
GroupFullLate(cur, max_per_conn) == Len(cur) > max_per_conn

\* "if len(cur) >= max_per_conn"
GroupFull(cur, max_per_conn) == Len(cur) >= max_per_conn

\* the grouping loop of start_all
RECURSIVE PackLoop(_, _, _, _)
PackLoop(toks, cur, groups, max_per_conn) ==
    IF toks = <<>>
    THEN IF cur # <<>> THEN Append(groups, cur) ELSE groups
    ELSE IF GroupFull(cur, max_per_conn)
         THEN PackLoop(Tail(toks), <<Head(toks)>>, Append(groups, cur), max_per_conn)
         ELSE PackLoop(Tail(toks), Append(cur, Head(toks)), groups, max_per_conn)

GroupsOf(args) ==
    PackLoop(AllTokens(CleanSymbols(args.symbols), args.streams), <<>>, <<>>,
             args.max_per_conn)

\* a connection task as asyncio.create_task(_run_single_connection(...)) makes it
NewTask(grp) ==
    [tokens |-> grp, pc |-> "new", backoff |-> INITIAL_BACKOFF, fails |-> 0,
     cancel |-> FALSE]

\* the arguments of the start_all calls of a manager's life
LifecycleArgs ==
    [symbols : {<<" ">>, <<"btcusdt">>, <<"btcusdt", " ethusdt ">>},
     streams : {Some(<<"ticker">>)},
     max_per_conn : {1}]

ConnIds == {1, 2}

WsInit ==
    /\ manager_tasks = <<>>
    /\ manager_session = None
    /\ manager_stop = None
    /\ manager_symbols = <<>>
    /\ start_pending = <<>>
    /\ stop_pc = "idle"
    /\ start_calls = 0
    /\ stop_calls = 0
    /\ sessions_opened = 0
    /\ connect_budget = MaxWsAttempts
    /\ frame_budget = MaxWsFrames
    /\ frames_read = 0
    /\ last_frame = None
    /\ dispatched = 0
    /\ cb_running = 0
    /\ cb_failures = 0

\* a caller enters start_all and waits for _manager_lock
StartAllCall(args) ==
    /\ Len(start_pending) < 2
    /\ start_calls + Len(start_pending) < MaxStartCalls
    /\ start_pending' = Append(start_pending, args)
    /\ UNCHANGED <<manager_tasks, manager_session, manager_stop,
                   manager_symbols, stop_pc, start_calls, stop_calls,
                   sessions_opened, connect_budget, frame_budget, frames_read,
                   last_frame, dispatched, cb_running, cb_failures>>
    /\ UNCHANGED nonWsVars

\* a guard that never finds the manager running
AlreadyRunningNever == FALSE

\* "if _manager_tasks:"
AlreadyRunning == manager_tasks # <<>>

\* the body of start_all under _manager_lock; it has no suspension point
StartAllBody ==
    /\ stop_pc = "idle"
    /\ start_pending # <<>>
    /\ LET args == Head(start_pending)
           groups == GroupsOf(args)
       IN IF AlreadyRunning
          THEN UNCHANGED <<manager_tasks, manager_session, manager_stop,
                           manager_symbols, sessions_opened>>
          ELSE /\ manager_symbols' = CleanSymbols(args.symbols)
               /\ manager_stop' = Some([id |-> sessions_opened + 1, set |-> FALSE])
               /\ manager_session' = Some(sessions_opened + 1)
               /\ sessions_opened' = sessions_opened + 1
               /\ manager_tasks' = [i \in 1..Len(groups) |-> NewTask(groups[i])]
    /\ start_pending' = Tail(start_pending)
    /\ start_calls' = start_calls + 1
    /\ UNCHANGED <<stop_pc, stop_calls, connect_budget, frame_budget,
                   frames_read, last_frame, dispatched, cb_running, cb_failures>>
    /\ UNCHANGED nonWsVars

\* a stop_all that cancels nothing
CancelTaskSkipped(t) == t

\* t.cancel(): a task that has not finished gets a CancelledError at its
\* suspension point
CancelTask(t) == IF t.pc = "done" THEN t ELSE [t EXCEPT !.cancel = TRUE]

\* stop_all up to "await asyncio.sleep(timeout)"
StopBegin ==
    /\ stop_pc = "idle"
    /\ stop_calls < MaxStopCalls
    /\ IF manager_tasks = <<>>
       THEN /\ stop_calls' = stop_calls + 1
            /\ UNCHANGED <<manager_tasks, manager_stop, stop_pc>>
       ELSE /\ manager_stop' = IF manager_stop = None THEN None
                               ELSE Some([Val(manager_stop) EXCEPT !.set = TRUE])
            /\ manager_tasks' = [i \in 1..Len(manager_tasks) |->
                                    CancelTask(manager_tasks[i])]
            /\ stop_pc' = "sleep"
            /\ UNCHANGED stop_calls
    /\ UNCHANGED <<manager_session, manager_symbols, start_pending,
                   start_calls, sessions_opened, connect_budget, frame_budget,
                   frames_read, last_frame, dispatched, cb_running, cb_failures>>
    /\ UNCHANGED nonWsVars

\* the sleep of stop_all is over; it awaits gather(*_manager_tasks)
StopSleepDone ==
    /\ stop_pc = "sleep"
    /\ stop_pc' = "gather"
    /\ UNCHANGED <<manager_tasks, manager_session, manager_stop,
                   manager_symbols, start_pending, start_calls, stop_calls,
                   sessions_opened, connect_budget, frame_budget, frames_read,
                   last_frame, dispatched, cb_running, cb_failures>>
    /\ UNCHANGED nonWsVars

\* gather returns once every task has finished; _manager_tasks = [] and
\* stop_all awaits _manager_session.close()
StopGatherDone ==
    /\ stop_pc = "gather"
    /\ \A i \in 1..Len(manager_tasks) : manager_tasks[i].pc = "done"
    /\ manager_tasks' = <<>>
    /\ stop_pc' = "close"
    /\ UNCHANGED <<manager_session, manager_stop, manager_symbols,
                   start_pending, start_calls, stop_calls, sessions_opened,
                   connect_budget, frame_budget, frames_read, last_frame,
                   dispatched, cb_running, cb_failures>>
    /\ UNCHANGED nonWsVars

\* the session is closed; _manager_session = None, _manager_stop = None
StopCloseDone ==
    /\ stop_pc = "close"
    /\ manager_session' = None
    /\ manager_stop' = None
    /\ stop_pc' = "idle"
    /\ stop_calls' = stop_calls + 1
    /\ UNCHANGED <<manager_tasks, manager_symbols, start_pending, start_calls,
                   sessions_opened, connect_budget, frame_budget, frames_read,
                   last_frame, dispatched, cb_running, cb_failures>>
    /\ UNCHANGED nonWsVars

\* ---- _run_single_connection ----
StopIsSet == manager_stop # None /\ Val(manager_stop).set

\* the task can take a step of its own: it exists, has not finished, and no
\* CancelledError is waiting for it
Runnable(i) ==
    /\ i \in 1..Len(manager_tasks)
    /\ manager_tasks[i].pc # "done"
    /\ ~manager_tasks[i].cancel

SetTask(i, t) == manager_tasks' = [manager_tasks EXCEPT ![i] = t]

\* the head of "while not stop_event.is_set()": the next ws_connect, or the exit
LoopHead(t) ==
    IF StopIsSet THEN [t EXCEPT !.pc = "done"] ELSE [t EXCEPT !.pc = "connecting"]

\* the task runs for the first time, up to its first ws_connect
TaskStart(i) ==
    /\ Runnable(i)
    /\ manager_tasks[i].pc = "new"
    /\ SetTask(i, IF manager_tasks[i].tokens = <<>>
                  THEN [manager_tasks[i] EXCEPT !.pc = "done"]
                  ELSE LoopHead(manager_tasks[i]))
    /\ UNCHANGED <<manager_session, manager_stop, manager_symbols,
                   start_pending, stop_pc, start_calls, stop_calls,
                   sessions_opened, connect_budget, frame_budget, frames_read,
                   last_frame, dispatched, cb_running, cb_failures>>
    /\ UNCHANGED nonWsVars

\* ws_connect succeeds: backoff = INITIAL_BACKOFF, the task reads frames
ConnectOk(i) ==
    /\ Runnable(i)
    /\ manager_tasks[i].pc = "connecting"
    /\ connect_budget > 0
    /\ connect_budget' = connect_budget - 1
    /\ SetTask(i, [manager_tasks[i] EXCEPT !.pc = "reading",
                                           !.backoff = INITIAL_BACKOFF,
                                           !.fails = 0])
    /\ UNCHANGED <<manager_session, manager_stop, manager_symbols,
                   start_pending, stop_pc, start_calls, stop_calls,
                   sessions_opened, frame_budget, frames_read, last_frame,
                   dispatched, cb_running, cb_failures>>
    /\ UNCHANGED nonWsVars

\* "except Exception" up to "await asyncio.sleep(backoff + jitter)"
Failed(t) == [t EXCEPT !.pc = "sleeping", !.fails = t.fails + 1]

\* ws_connect raises
ConnectFail(i) ==
    /\ Runnable(i)
    /\ manager_tasks[i].pc = "connecting"
    /\ connect_budget > 0
    /\ connect_budget' = connect_budget - 1
    /\ SetTask(i, Failed(manager_tasks[i]))
    /\ UNCHANGED <<manager_session, manager_stop, manager_symbols,
                   start_pending, stop_pc, start_calls, stop_calls,
                   sessions_opened, frame_budget, frames_read, last_frame,
                   dispatched, cb_running, cb_failures>>
    /\ UNCHANGED nonWsVars

\* a backoff that is not capped
NextBackoffUncapped(backoff) == backoff * 2

\* "backoff = min(backoff * 2, MAX_BACKOFF)"
NextBackoff(backoff) ==
    IF backoff * 2 < MAX_BACKOFF THEN backoff * 2 ELSE MAX_BACKOFF

\* the backoff sleep is over: the delay doubles and the loop goes round
SleepDone(i) ==
    /\ Runnable(i)
    /\ manager_tasks[i].pc = "sleeping"
    /\ SetTask(i, LoopHead([manager_tasks[i] EXCEPT
                                !.backoff = NextBackoff(manager_tasks[i].backoff)]))
    /\ UNCHANGED <<manager_session, manager_stop, manager_symbols,
                   start_pending, stop_pc, start_calls, stop_calls,
                   sessions_opened, connect_budget, frame_budget, frames_read,
                   last_frame, dispatched, cb_running, cb_failures>>
    /\ UNCHANGED nonWsVars

\* the shapes of TEXT frame _parse_raw_message distinguishes
Frames ==
    {[valid_json |-> FALSE, is_dict |-> FALSE, combined |-> FALSE,
      data_is_dict |-> FALSE, symbol_is_str |-> FALSE],
     [valid_json |-> TRUE, is_dict |-> FALSE, combined |-> FALSE,
      data_is_dict |-> FALSE, symbol_is_str |-> FALSE],
     [valid_json |-> TRUE, is_dict |-> TRUE, combined |-> TRUE,
      data_is_dict |-> TRUE, symbol_is_str |-> TRUE],
     [valid_json |-> TRUE, is_dict |-> TRUE, combined |-> TRUE,
      data_is_dict |-> FALSE, symbol_is_str |-> FALSE],
     [valid_json |-> TRUE, is_dict |-> TRUE, combined |-> FALSE,
      data_is_dict |-> FALSE, symbol_is_str |-> TRUE],
     [valid_json |-> TRUE, is_dict |-> TRUE, combined |-> FALSE,
      data_is_dict |-> FALSE, symbol_is_str |-> FALSE]}

\* _parse_raw_message: "none" for a return of None, "dict" for a payload,
\* "raise" for an exception that leaves the function
parse_raw_message(f) ==
    IF ~f.valid_json THEN "none"
    ELSE IF f.is_dict /\ f.combined
         THEN IF f.data_is_dict /\ f.symbol_is_str THEN "dict" ELSE "raise"
    ELSE IF f.is_dict
         THEN IF f.symbol_is_str THEN "dict" ELSE "raise"
    ELSE "none"

\* one TEXT message of "async for msg in ws"
ReadText(i, f) ==
    /\ Runnable(i)
    /\ manager_tasks[i].pc = "reading"
    /\ frame_budget > 0
    /\ frame_budget' = frame_budget - 1
    /\ frames_read' = frames_read + 1
    /\ last_frame' = Some([conn |-> i, frame |-> f, n |-> frames_read + 1])
    /\ LET parsed == parse_raw_message(f)
       IN /\ IF parsed = "raise"
             THEN SetTask(i, Failed(manager_tasks[i]))
             ELSE UNCHANGED manager_tasks
          /\ IF parsed = "dict"
             THEN /\ dispatched' = dispatched + 1
                  /\ cb_running' = cb_running + 1
             ELSE UNCHANGED <<dispatched, cb_running>>
    /\ UNCHANGED <<manager_session, manager_stop, manager_symbols,
                   start_pending, stop_pc, start_calls, stop_calls,
                   sessions_opened, connect_budget, cb_failures>>
    /\ UNCHANGED nonWsVars

\* a CLOSED or ERROR message, or the end of the message iterator: the loop
\* goes round
ReadClosed(i) ==
    /\ Runnable(i)
    /\ manager_tasks[i].pc = "reading"
    /\ SetTask(i, LoopHead(manager_tasks[i]))
    /\ UNCHANGED <<manager_session, manager_stop, manager_symbols,
                   start_pending, stop_pc, start_calls, stop_calls,
                   sessions_opened, connect_budget, frame_budget, frames_read,
                   last_frame, dispatched, cb_running, cb_failures>>
    /\ UNCHANGED nonWsVars

\* the connection raises while it is read (timeout, reset)
ReadFail(i) ==
    /\ Runnable(i)
    /\ manager_tasks[i].pc = "reading"
    /\ SetTask(i, Failed(manager_tasks[i]))
    /\ UNCHANGED <<manager_session, manager_stop, manager_symbols,
                   start_pending, stop_pc, start_calls, stop_calls,
                   sessions_opened, connect_budget, frame_budget, frames_read,
                   last_frame, dispatched, cb_running, cb_failures>>
    /\ UNCHANGED nonWsVars

\* the CancelledError reaches the task: "break" in the try block, propagation
\* from the backoff sleep, or a task cancelled before it ever ran
TaskCancelled(i) ==
    /\ i \in 1..Len(manager_tasks)
    /\ manager_tasks[i].cancel
    /\ manager_tasks[i].pc # "done"
    /\ SetTask(i, [manager_tasks[i] EXCEPT !.pc = "done"])
    /\ UNCHANGED <<manager_session, manager_stop, manager_symbols,
                   start_pending, stop_pc, start_calls, stop_calls,
                   sessions_opened, connect_budget, frame_budget, frames_read,
                   last_frame, dispatched, cb_running, cb_failures>>
    /\ UNCHANGED nonWsVars

\* a callback task ends, normally or with an exception that its done
\* callback retrieves
CbDone(failed) ==
    /\ cb_running > 0
    /\ cb_running' = cb_running - 1
    /\ cb_failures' = IF failed THEN cb_failures + 1 ELSE cb_failures
    /\ UNCHANGED <<manager_tasks, manager_session, manager_stop,
                   manager_symbols, start_pending, stop_pc, start_calls,
                   stop_calls, sessions_opened, connect_budget, frame_budget,
                   frames_read, last_frame, dispatched>>
    /\ UNCHANGED nonWsVars

ConnNext ==
    \/ \E i \in ConnIds : TaskStart(i)
    \/ \E i \in ConnIds : ConnectOk(i)
    \/ \E i \in ConnIds : ConnectFail(i)
    \/ \E i \in ConnIds : SleepDone(i)
    \/ \E i \in ConnIds, f \in Frames : ReadText(i, f)
    \/ \E i \in ConnIds : ReadClosed(i)
    \/ \E i \in ConnIds : ReadFail(i)
    \/ \E failed \in BOOLEAN : CbDone(failed)

WsNext ==
    \/ \E args \in LifecycleArgs : StartAllCall(args)
    \/ StartAllBody
    \/ StopBegin
    \/ StopSleepDone
    \/ StopGatherDone
    \/ StopCloseDone
    \/ \E i \in ConnIds : TaskCancelled(i)
    \/ \E i \in ConnIds : TaskStart(i)
    \/ \E i \in ConnIds : ConnectOk(i)
    \/ \E i \in ConnIds : ConnectFail(i)
    \/ \E i \in ConnIds : SleepDone(i)
    \/ \E i \in ConnIds, f \in Frames : ReadText(i, f)
    \/ \E i \in ConnIds : ReadClosed(i)
    \/ \E i \in ConnIds : ReadFail(i)
    \/ \E failed \in BOOLEAN : CbDone(failed)

\* start_all on an idle manager, for every argument list
SymbolVals == {"btcusdt", " ethusdt ", " "}
SymbolLists == UNION {[1..n -> SymbolVals] : n \in 0..MaxSymbols}
StreamArgs == {None, Some(<<>>), Some(<<"ticker">>), Some(<<"ticker", "aggTrade">>)}
PackArgs == [symbols : SymbolLists, streams : StreamArgs, max_per_conn : 1..MaxPerConn]

PackInit ==
    /\ manager_tasks = <<>>
    /\ manager_session = None
    /\ manager_stop = None
    /\ manager_symbols = <<>>
    /\ \E args \in PackArgs : start_pending = <<args>>
    /\ stop_pc = "idle"
    /\ start_calls = 0
    /\ stop_calls = 0
    /\ sessions_opened = 0
    /\ connect_budget = 0
    /\ frame_budget = 0
    /\ frames_read = 0
    /\ last_frame = None
    /\ dispatched = 0
    /\ cb_running = 0
    /\ cb_failures = 0

\* one connection loop of a running manager
ConnInit ==
    /\ manager_tasks = <<NewTask(<<<<"btcusdt", "ticker">>>>)>>
    /\ manager_session = Some(1)
    /\ manager_stop = Some([id |-> 1, set |-> FALSE])
    /\ manager_symbols = <<"btcusdt">>
    /\ start_pending = <<>>
    /\ stop_pc = "idle"
    /\ start_calls = 1
    /\ stop_calls = 0
    /\ sessions_opened = 1
    /\ connect_budget = MaxAttempts
    /\ frame_budget = MaxFrames
    /\ frames_read = 0
    /\ last_frame = None
    /\ dispatched = 0
    /\ cb_running = 0
    /\ cb_failures = 0

(***************************************************************************)
(* db_writer_worker: the row built from one buffered item (app.py)         *)
(***************************************************************************)
\* values found in a payload: a string or a number
PyStr(s) == [t |-> "str", s |-> s, n |-> 0]
PyNum(n) == [t |-> "num", s |-> "", n |-> n]

\* truth value of an optional payload value (None, "" and 0 are false)
Truthy(o) == o # None /\ (IF Val(o).t = "str" THEN Val(o).s # "" ELSE Val(o).n # 0)

\* truth value of an optional number (None and 0.0 are false)
TruthyNum(o) == o # None /\ Val(o) # 0

\* a or b
OrNum(a, b) == IF TruthyNum(a) THEN a ELSE b

\* float(p) if p is not None else None, a ValueError turned into None
FloatOrNone(o) ==
    IF o = None THEN None
    ELSE IF Val(o).t = "num" THEN Some(Val(o).n)
    ELSE IF Val(o).s = "101" THEN Some(101)
    ELSE IF Val(o).s = "0" THEN Some(0)
    ELSE None

\* transform_sync for one item: item.get("Price") or item.get("price") or ...
\* (the record built by on_message_callback carries only "Price")
TransformItem(item) ==
    LET p == IF Truthy(item.Price) THEN item.Price ELSE None
        oi == IF Truthy(item.openInterest) THEN item.openInterest ELSE None
    IN [symbol |-> item.symbol, price |-> FloatOrNone(p), funding |-> None,
        oi_usd |-> None, oi_abs_usd |-> FloatOrNone(oi), global_ls_5m |-> None,
        top_ls_accounts |-> None, top_ls_positions |-> None,
        volume_24h |-> None, vol_usd |-> None]

\* the overlay of the latest market_rest_metrics row on the transformed row
MergeRest(row, rest) ==
    [row EXCEPT
        !.funding = IF rest.funding_rate # None THEN rest.funding_rate ELSE @,
        !.oi_usd = IF rest.open_interest_hist_usd # None
                   THEN rest.open_interest_hist_usd ELSE @,
        !.global_ls_5m = OrNum(rest.global_long_short_ratio, @),
        !.top_ls_accounts = OrNum(rest.top_trader_account_ratio, @),
        !.top_ls_positions = OrNum(rest.top_trader_long_short_ratio, @),
        !.price = IF @ = None
                  THEN OrNum(rest.mark_price, OrNum(rest.close, @)) ELSE @,
        !.volume_24h = OrNum(rest.volume, @),
        !.vol_usd = OrNum(rest.volume, @)]

\* the row db_writer_worker appends for one item; a.rest is what
\* get_latest_rest_metric returns, a.lookup_raises says that it raised instead
WorkerRow(a) ==
    LET row == TransformItem(a.item)
    IN IF a.lookup_raises \/ a.rest = None THEN row ELSE MergeRest(row, Val(a.rest))

PriceVals == {None, Some(PyStr("101")), Some(PyStr("abc")), Some(PyStr("0"))}
OiVals == {None, Some(PyStr("101"))}
SnapNums == {None, Some(0), Some(5)}

MergeItems == [symbol : {"BTCUSDT"}, Price : PriceVals, openInterest : OiVals]

RestRows ==
    [funding_rate : SnapNums, open_interest_hist_usd : {None, Some(9)},
     global_long_short_ratio : SnapNums, top_trader_account_ratio : {Some(2)},
     top_trader_long_short_ratio : {Some(3)}, mark_price : {None, Some(50)},
     close : {Some(49)}, volume : SnapNums]

MergeArgs ==
    [item : MergeItems, rest : {None} \cup {Some(r) : r \in RestRows},
     lookup_raises : BOOLEAN]

MergeInit == fn_args \in {Some(a) : a \in MergeArgs} /\ fn_out = None

MergeCall ==
    /\ fn_args # None /\ fn_out = None
    /\ fn_out' = Some(WorkerRow(Val(fn_args)))
    /\ UNCHANGED <<fn_args, nonCallVars>>

(***************************************************************************)
(* compute_quant_metrics: fan-out under the semaphore (quant_engine.py)    *)
(***************************************************************************)
MaxLimSyms == 26

\* the pool sizes of the model: small pools, and one for which twice the size
\* exceeds the cap of 24
PoolSizes == {1, 2, 13}

MinInt(a, b) == IF a < b THEN a ELSE b
MaxInt(a, b) == IF a > b THEN a ELSE b

\* getattr(db, "POOL_MAX_SIZE", 10) or 10
PoolMax(p) == IF p = 0 THEN 10 ELSE p

SemSizeUncapped(p) == MaxInt(1, PoolMax(p) * 2)

\* asyncio.Semaphore(max(1, min(24, pool_max * 2)))
SemSize(p) == MaxInt(1, MinInt(24, PoolMax(p) * 2))

\* tasks = [create_task(process_symbol(s)) for s in symbols]
LimInit ==
    /\ lim_pool_max \in PoolSizes
    /\ lim_waiting \in 1..MaxLimSyms
    /\ lim_history = 0 /\ lim_compute = 0 /\ lim_done = 0

\* "async with sem" entered: the task starts db.get_metrics_by_symbol_async
SemAcquire ==
    /\ lim_waiting > 0
    /\ lim_history + lim_compute < SemSize(lim_pool_max)
    /\ lim_waiting' = lim_waiting - 1
    /\ lim_history' = lim_history + 1
    /\ UNCHANGED <<lim_pool_max, lim_compute, lim_done, nonLimVars>>

\* history read, rows not empty: asyncio.to_thread(_process_symbol_sync, ...)
HistoryRead ==
    /\ lim_history > 0
    /\ lim_history' = lim_history - 1
    /\ lim_compute' = lim_compute + 1
    /\ UNCHANGED <<lim_pool_max, lim_waiting, lim_done, nonLimVars>>

\* no rows, or the read raised: return None, leaving the semaphore
HistoryEmpty ==
    /\ lim_history > 0
    /\ lim_history' = lim_history - 1
    /\ lim_done' = lim_done + 1
    /\ UNCHANGED <<lim_pool_max, lim_waiting, lim_compute, nonLimVars>>

\* the thread returned (or raised): return, leaving the semaphore
ComputeDone ==
    /\ lim_compute > 0
    /\ lim_compute' = lim_compute - 1
    /\ lim_done' = lim_done + 1
    /\ UNCHANGED <<lim_pool_max, lim_waiting, lim_history, nonLimVars>>

LimNext == SemAcquire \/ HistoryRead \/ HistoryEmpty \/ ComputeDone

(***************************************************************************)
(* Confluence stage (quant_engine.compute_confluence_scores)               *)
(***************************************************************************)
\* the families the confluence score reads; scores in units of 0.0001
ConfluenceFamilies == {"accumulation", "momentum", "distribution", "exhaustion"}

\* safe_num(fams.get(fam)): a family without a latest signal row counts 0.0
FamScore(fams, fam) == IF fam \in DOMAIN fams THEN fams[fam] ELSE 0

\* a bull score that takes a bear family
BullMixed(fams) ==
    (FamScore(fams, "accumulation") + FamScore(fams, "distribution")) * 5

\* (a + b) / 2, in units of 0.00001
Bull(fams) == (FamScore(fams, "accumulation") + FamScore(fams, "momentum")) * 5
Bear(fams) == (FamScore(fams, "distribution") + FamScore(fams, "exhaustion")) * 5

\* round(x, 4) of a value in units of 0.00001, giving units of 0.0001; when x
\* lies halfway the direction depends on the binary value of the float: up
\* says which way it goes
RoundTo4(x, up) ==
    LET q == x \div 10
        r == x % 10
    IN IF r > 5 \/ (r = 5 /\ up) THEN q + 1 ELSE q

\* the row appended for one row d of the latest diagnostics
ConfluenceRow(d, fams, ups) ==
    [confluence_score |-> RoundTo4(Bull(fams) - Bear(fams), ups.conf),
     bull_strength |-> RoundTo4(Bull(fams), ups.bull),
     bear_strength |-> RoundTo4(Bear(fams), ups.bear),
     volatility |-> FloatOr0(d.volatility_5s),
     family_count |-> Cardinality(DOMAIN fams)]

\* sigmap.get(sym, {})
SigmapGet(sigmap, sym) == sigmap[sym]

\* compute_confluence_scores: one row per symbol that has a diagnostics row
compute_confluence_scores(a, ups) ==
    [s \in DOMAIN a.diags |-> ConfluenceRow(a.diags[s], SigmapGet(a.sigmap, s), ups)]

FamScoreVals == {1, 2}
FamMaps == UNION {[F -> FamScoreVals] : F \in SUBSET ConfluenceFamilies}
DiagRows == [volatility_5s : {None, Some(30)}]

ConfluenceArgs ==
    UNION {[diags : [S -> DiagRows], sigmap : [Symbols -> FamMaps]] :
              S \in SUBSET Symbols}

ConfluenceInit == fn_args \in {Some(a) : a \in ConfluenceArgs} /\ fn_out = None

ConfluenceCall ==
    /\ fn_args # None /\ fn_out = None
    /\ \E ups \in [conf : BOOLEAN, bull : BOOLEAN, bear : BOOLEAN] :
          fn_out' = Some(compute_confluence_scores(Val(fn_args), ups))
    /\ UNCHANGED <<fn_args, nonCallVars>>

(***************************************************************************)
(* safe_loop_runner and the tasks that run it (quant_engine.py)            *)
(***************************************************************************)
MaxLoops == 2
MaxLoopFails == 2

LoopIds == 1..MaxLoops

\* loops = [asyncio.create_task(...), ...]; every task starts in its first
\* iteration
LoopsInit ==
    /\ loop_pc = [i \in LoopIds |-> "iter"]
    /\ loop_fails = [i \in LoopIds |-> 0]
    /\ loop_cancel = [i \in LoopIds |-> FALSE]
    /\ loops_main = "running"

\* a runner that an Exception of iteration_coro ends
AfterIterationErrorExit == "done"

\* where safe_loop_runner goes when iteration_coro raised an Exception:
\* a warning, then the jittered sleep
AfterIterationError == "sleep"

\* iteration_coro() returned
IterationOk(i) ==
    /\ loop_pc[i] = "iter"
    /\ loop_pc' = [loop_pc EXCEPT ![i] = "sleep"]
    /\ UNCHANGED <<loop_fails, loop_cancel, loops_main, nonLoopVars>>

\* iteration_coro() raised an Exception
IterationError(i) ==
    /\ loop_pc[i] = "iter"
    /\ loop_fails[i] < MaxLoopFails
    /\ loop_pc' = [loop_pc EXCEPT ![i] = AfterIterationError]
    /\ loop_fails' = [loop_fails EXCEPT ![i] = @ + 1]
    /\ UNCHANGED <<loop_cancel, loops_main, nonLoopVars>>

\* asyncio.sleep(sleep_for) returned: next turn of "while True"
LoopSleepDone(i) ==
    /\ loop_pc[i] = "sleep"
    /\ ~loop_cancel[i]
    /\ loop_pc' = [loop_pc EXCEPT ![i] = "iter"]
    /\ UNCHANGED <<loop_fails, loop_cancel, loops_main, nonLoopVars>>

\* main: "for t in loops: t.cancel()"
CancelLoops ==
    /\ loops_main = "running"
    /\ loop_cancel' = [i \in LoopIds |-> loop_pc[i] # "done"]
    /\ loops_main' = "cancelling"
    /\ UNCHANGED <<loop_pc, loop_fails, nonLoopVars>>

\* CancelledError raised at the task's suspension point (inside the iteration
\* or in the sleep): not caught by "except Exception", re-raised by both
\* handlers of safe_loop_runner (flush_coro is None for every stage loop)
LoopCancelled(i) ==
    /\ loop_cancel[i]
    /\ loop_pc[i] \in {"iter", "sleep"}
    /\ loop_pc' = [loop_pc EXCEPT ![i] = "done"]
    /\ loop_cancel' = [loop_cancel EXCEPT ![i] = FALSE]
    /\ UNCHANGED <<loop_fails, loops_main, nonLoopVars>>

\* main: asyncio.gather(*loops, return_exceptions=True) returns
GatherLoops ==
    /\ loops_main = "cancelling"
    /\ \A i \in LoopIds : loop_pc[i] = "done"
    /\ loops_main' = "gathered"
    /\ UNCHANGED <<loop_pc, loop_fails, loop_cancel, nonLoopVars>>

LoopsNext ==
    \/ \E i \in LoopIds : IterationOk(i) \/ IterationError(i) \/ LoopSleepDone(i)
                             \/ LoopCancelled(i)
    \/ CancelLoops
    \/ GatherLoops

(***************************************************************************)
(* The stage loops started by app.startup, for one symbol                  *)
(***************************************************************************)
MaxIntervals == 2

Stages == {"diagnostics", "signals", "confluence", "regime", "context"}

ChainSymbol == "BTCUSDT"

\* the diagnostics rows computed from feature rows with steadily rising open
\* interest and flat price: correlations in units of 0.0001, volatility in
\* units of 0.001; the correlation with a constant price series is None
AccDiagRows ==
    [corr_price_oi : {None, Some(10000)}, corr_oi_ls : {Some(10000)},
     corr_price_ls : {Some(10000)}, volatility_5s : {Some(10)},
     confluence_density : {Some(0)}]

Max0(x) == IF x < 0 THEN 0 ELSE x

\* compute_signal_families: the six family values of one diagnostics row, in
\* units of 0.00001 before round(val, 4)
FamilyValues(d) ==
    LET cpo == FloatOr0(d.corr_price_oi)
        col == FloatOr0(d.corr_oi_ls)
        cpl == FloatOr0(d.corr_price_ls)
    IN [accumulation |-> Max0(cpo + col) * 5,
        distribution |-> Max0(-cpo - col) * 5,
        momentum |-> (Abs(cpo) * FloatOr0(d.volatility_5s)) \div 100,
        exhaustion |-> Max0(10000 - Abs(cpo)) * 10,
        orderflow |-> FloatOr0(d.confluence_density) * 15,
        divergence |-> Max0(Abs(cpl - col)) * 10]

\* the rows appended per family: score = round(val, 4), confidence 0.8 when
\* the value is positive, else 0.0 (units of 0.0001)
SignalRows(d, up) ==
    LET vals == FamilyValues(d)
    IN [fam \in DOMAIN vals |->
           [score |-> RoundTo4(vals[fam], up),
            confidence |-> IF vals[fam] > 0 THEN 8000 ELSE 0]]

\* a value in units of 0.0001 given to a definition that counts in 0.001 (the
\* values of this section are whole multiples of 0.001)
ToMilli(x) == IF x >= 0 THEN x \div 10 ELSE -((-x) \div 10)

ChainInit ==
    /\ ch_diag = None /\ ch_sig = None /\ ch_conf = None /\ ch_regime = None
    /\ ch_bias = None /\ ch_ran = {} /\ ch_intervals = 0

Ran(stage) == ch_ran' = ch_ran \cup {stage}

\* diagnostics_loop.iteration
DiagnosticsTurn ==
    /\ "diagnostics" \notin ch_ran
    /\ \E d \in AccDiagRows : ch_diag' = Some(d)
    /\ Ran("diagnostics")
    /\ UNCHANGED <<ch_sig, ch_conf, ch_regime, ch_bias, ch_intervals, nonChainVars>>

\* signals_loop.iteration: rows only for symbols with a diagnostics row
SignalsTurn ==
    /\ "signals" \notin ch_ran
    /\ ch_sig' = IF ch_diag = None THEN ch_sig
                 ELSE Some(SignalRows(Val(ch_diag), FALSE))
    /\ Ran("signals")
    /\ UNCHANGED <<ch_diag, ch_conf, ch_regime, ch_bias, ch_intervals, nonChainVars>>

\* confluence_loop.iteration: a row for every symbol with a diagnostics row
ConfluenceTurn ==
    /\ "confluence" \notin ch_ran
    /\ ch_conf' =
          IF ch_diag = None THEN ch_conf
          ELSE LET fams == IF ch_sig = None THEN <<>>
                           ELSE [f \in DOMAIN Val(ch_sig) |-> Val(ch_sig)[f].score]
               IN Some(ConfluenceRow(Val(ch_diag), fams,
                                     [conf |-> FALSE, bull |-> FALSE, bear |-> FALSE]))
    /\ Ran("confluence")
    /\ UNCHANGED <<ch_diag, ch_sig, ch_regime, ch_bias, ch_intervals, nonChainVars>>

\* regime_loop.iteration: a row for every symbol with a confluence row
RegimeTurn ==
    /\ "regime" \notin ch_ran
    /\ ch_regime' =
          IF ch_conf = None THEN ch_regime
          ELSE Some(RegimeRecord(ChainSymbol,
                       [confluence_score |-> Some(ToMilli(Val(ch_conf).confluence_score)),
                        volatility |-> Some(Val(ch_conf).volatility)]).regime)
    /\ Ran("regime")
    /\ UNCHANGED <<ch_diag, ch_sig, ch_conf, ch_bias, ch_intervals, nonChainVars>>

\* context_scoring_loop.iteration: a row for every symbol with a signal row;
\* DISTINCT ON (symbol) ... ORDER BY symbol, ts DESC picks one of the six
\* family rows, which carry the same ts
ContextTurn ==
    /\ "context" \notin ch_ran
    /\ \/ /\ ch_sig = None
          /\ ch_bias' = ch_bias
       \/ /\ ch_sig # None
          /\ \E fam \in DOMAIN Val(ch_sig) :
                ch_bias' = Some(OutRow(
                    [signal_conf |-> Some(Val(ch_sig)[fam].confidence),
                     confluence_score |->
                         IF ch_conf = None THEN None
                         ELSE Some(Val(ch_conf).confluence_score),
                     regime |-> ch_regime]).bias)
    /\ Ran("context")
    /\ UNCHANGED <<ch_diag, ch_sig, ch_conf, ch_regime, ch_intervals, nonChainVars>>

\* every loop has run once: the next interval begins
IntervalOver ==
    /\ ch_ran = Stages
    /\ ch_intervals < MaxIntervals
    /\ ch_ran' = {}
    /\ ch_intervals' = ch_intervals + 1
    /\ UNCHANGED <<ch_diag, ch_sig, ch_conf, ch_regime, ch_bias, nonChainVars>>

ChainNext ==
    \/ DiagnosticsTurn
    \/ SignalsTurn
    \/ ConfluenceTurn
    \/ RegimeTurn
    \/ ContextTurn
    \/ IntervalOver

(***************************************************************************)
(* Family flags and heuristic confidence (_process_symbol_sync)            *)
(***************************************************************************)
\* the keys of family_flags, in the order of the dict
FamilyOrder ==
    <<"accumulation", "distribution", "momentum", "exhaustion", "orderflow",
      "divergence">>

\* FAMILY_WEIGHTS.get(k, 1.0), in tenths: "distribution" has no entry
FamilyWeightNoDefault(k) ==
    IF k = "exhaustion" THEN 8
    ELSE IF k = "divergence" THEN 9
    ELSE IF k = "distribution" THEN 0
    ELSE 10

FAMILY_WEIGHTS(k) ==
    IF k = "exhaustion" THEN 8
    ELSE IF k = "divergence" THEN 9
    ELSE 10

\* the tests on latest_top_ls_acc (in hundredths) of each family; "rest" says
\* whether the family's other conditions hold
FamilyFlags(a) ==
    LET top == a.latest_top_ls_acc
    IN [accumulation |-> a.rest["accumulation"] /\ top # None /\ Val(top) > 150,
        distribution |-> a.rest["distribution"] /\ top # None /\ Val(top) < 80,
        momentum |-> a.rest["momentum"],
        exhaustion |-> a.rest["exhaustion"] /\ top # None /\ Val(top) < 90,
        orderflow |-> a.rest["orderflow"],
        divergence |-> a.rest["divergence"] /\ top # None /\ Val(top) # 0]

RECURSIVE ScoreSums(_, _)
\* the loop over family_flags.items(): score_numer and score_denom
ScoreSums(order, flags) ==
    IF order = <<>> THEN [numer |-> 0, denom |-> 0]
    ELSE LET rest == ScoreSums(Tail(order), flags)
             w == FAMILY_WEIGHTS(Head(order))
         IN [numer |-> rest.numer + (IF flags[Head(order)] THEN w ELSE 0),
             denom |-> rest.denom + w]

\* round(float(confidence), 3), in thousandths (a quotient by 57 tenths is
\* never halfway between two thousandths)
Round3(numer, denom) == (2000 * numer + denom) \div (2 * denom)

\* the "families" and "confidence" entries of the returned snapshot
SnapshotConfidence(a) ==
    LET flags == FamilyFlags(a)
        s == ScoreSums(FamilyOrder, flags)
    IN [families |-> flags,
        confidence |-> IF s.denom > 0 THEN Round3(s.numer, s.denom) ELSE 0]

FamilyNames == {FamilyOrder[i] : i \in 1..Len(FamilyOrder)}

TopLsVals == {None, Some(0), Some(70), Some(85), Some(160)}

FamilyArgs == [latest_top_ls_acc : TopLsVals, rest : [FamilyNames -> BOOLEAN]]

FamilyInit == fn_args \in {Some(a) : a \in FamilyArgs} /\ fn_out = None

FamilyCall ==
    /\ fn_args # None /\ fn_out = None
    /\ fn_out' = Some(SnapshotConfidence(Val(fn_args)))
    /\ UNCHANGED <<fn_args, nonCallVars>>

(***************************************************************************)
(* ensure_connected and the operations that use the pool (db.py)           *)
(***************************************************************************)
MaxOps == 2
MaxOpCalls == 2
MaxPoolEvents == 2

\* ensure_connected(retries=3)
RETRIES == 3

OpIds == 1..MaxOps

\* a quick check that takes any existing pool for healthy
HealthyIfPresent(pool) == pool # "none"

\* "if _pool and not closed_flag"
Healthy(pool) == pool = "open"

PoolInit ==
    /\ db_pool \in {"none", "open", "closed"}
    /\ pool_gen = IF db_pool = "none" THEN 0 ELSE 1
    /\ db_up \in BOOLEAN
    /\ pool_events = 0
    /\ op_pc = [o \in OpIds |-> "idle"]
    /\ op_attempt = [o \in OpIds |-> 0]
    /\ op_missing = [o \in OpIds |-> FALSE]
    /\ op_gen0 = [o \in OpIds |-> 0]
    /\ op_ran = [o \in OpIds |-> 0]
    /\ op_calls = [o \in OpIds |-> 0]
    /\ caller_pc = [o \in OpIds |-> "running"]

\* a loop iteration enters "async with DBConnection()" (or a db function that
\* starts with "await ensure_connected()"): the quick check of ensure_connected
InvokeOp(o) ==
    /\ op_pc[o] = "idle" /\ caller_pc[o] = "running"
    /\ op_calls[o] < MaxOpCalls
    /\ op_calls' = [op_calls EXCEPT ![o] = @ + 1]
    /\ op_missing' = [op_missing EXCEPT ![o] = db_pool # "open"]
    /\ op_gen0' = [op_gen0 EXCEPT ![o] = pool_gen]
    /\ op_ran' = [op_ran EXCEPT ![o] = 0]
    /\ IF Healthy(db_pool)
       THEN /\ op_pc' = [op_pc EXCEPT ![o] = "acquire"]
            /\ op_attempt' = [op_attempt EXCEPT ![o] = 0]
       ELSE /\ op_pc' = [op_pc EXCEPT ![o] = "ensure"]
            /\ op_attempt' = [op_attempt EXCEPT ![o] = 1]
    /\ UNCHANGED <<db_pool, pool_gen, db_up, pool_events, caller_pc, nonPoolVars>>

\* init_db_async under _init_lock returns: an open pool is reused, else
\* create_pool made a new one; ensure_connected returns True
InitDbOk(o) ==
    /\ op_pc[o] = "ensure"
    /\ db_pool = "open" \/ db_up
    /\ db_pool' = "open"
    /\ pool_gen' = IF db_pool = "open" THEN pool_gen ELSE pool_gen + 1
    /\ op_pc' = [op_pc EXCEPT ![o] = "acquire"]
    /\ UNCHANGED <<db_up, pool_events, op_attempt, op_missing, op_gen0, op_ran,
                   op_calls, caller_pc, nonPoolVars>>

\* init_db_async raised (create_pool failed or timed out): logged, then
\* asyncio.sleep(delay); after the last attempt ensure_connected returns False
\* and the caller goes on to _pool.acquire()
InitDbFail(o) ==
    /\ op_pc[o] = "ensure"
    /\ db_pool # "open" /\ ~db_up
    /\ IF op_attempt[o] < RETRIES
       THEN /\ op_attempt' = [op_attempt EXCEPT ![o] = @ + 1]
            /\ op_pc' = op_pc
       ELSE /\ op_attempt' = op_attempt
            /\ op_pc' = [op_pc EXCEPT ![o] = "acquire"]
    /\ UNCHANGED <<db_pool, pool_gen, db_up, pool_events, op_missing, op_gen0,
                   op_ran, op_calls, caller_pc, nonPoolVars>>

\* _pool.acquire() and the statements of the operation: AttributeError when
\* _pool is None, InterfaceError when the pool is closed
AcquireAndRun(o) ==
    /\ op_pc[o] = "acquire"
    /\ IF db_pool = "open"
       THEN /\ op_pc' = [op_pc EXCEPT ![o] = "ok"]
            /\ op_ran' = [op_ran EXCEPT ![o] = pool_gen]
       ELSE /\ op_pc' = [op_pc EXCEPT ![o] = "error"]
            /\ op_ran' = op_ran
    /\ UNCHANGED <<db_pool, pool_gen, db_up, pool_events, op_attempt, op_missing,
                   op_gen0, op_calls, caller_pc, nonPoolVars>>

\* the operation returns to its loop; an error is an Exception, which the
\* iteration (and safe_loop_runner) catches and logs
OpReturns(o) ==
    /\ op_pc[o] \in {"ok", "error"}
    /\ op_pc' = [op_pc EXCEPT ![o] = "idle"]
    /\ caller_pc' = [caller_pc EXCEPT ![o] = "running"]
    /\ UNCHANGED <<db_pool, pool_gen, db_up, pool_events, op_attempt, op_missing,
                   op_gen0, op_ran, op_calls, nonPoolVars>>

\* the database becomes unreachable or reachable again
DbAvailability ==
    /\ pool_events < MaxPoolEvents
    /\ pool_events' = pool_events + 1
    /\ db_up' = ~db_up
    /\ UNCHANGED <<db_pool, pool_gen, op_pc, op_attempt, op_missing, op_gen0,
                   op_ran, op_calls, caller_pc, nonPoolVars>>

\* close_db_async() (pool closed and set to None) or a pool closed under the
\* application, while no operation is in progress
PoolLost ==
    /\ pool_events < MaxPoolEvents
    /\ db_pool = "open"
    /\ \A o \in OpIds : op_pc[o] = "idle"
    /\ pool_events' = pool_events + 1
    /\ db_pool' \in {"none", "closed"}
    /\ UNCHANGED <<pool_gen, db_up, op_pc, op_attempt, op_missing, op_gen0,
                   op_ran, op_calls, caller_pc, nonPoolVars>>

PoolNext ==
    \/ \E o \in OpIds : InvokeOp(o) \/ InitDbOk(o) \/ InitDbFail(o)
                           \/ AcquireAndRun(o) \/ OpReturns(o)
    \/ DbAvailability
    \/ PoolLost

(***************************************************************************)
(* Stop and restart of the transition detector.  The application runs      *)
(* app.context_trends_iteration under safe_loop_template and keeps the    *)
(* remembered biases on the function object; quant_engine's               *)
(* context_trends_loop keeps them in a dict local to one call of the loop. *)
(***************************************************************************)
MaxRestarts == 1
MaxTrendObs == 2

TrendHosts == {"app", "engine"}

trendFrame ==
    <<pipeVars, regimeVars, zVars, ccVars, ioVars, callVars, limVars,
      loopVars, chainVars, poolVars, gateVars, qmVars, sdVars, initVars>>

TrendInit ==
    /\ trend_host \in TrendHosts
    /\ trend_task = "running"
    /\ trend_first = {}
    /\ trend_restarts = 0

\* the context scoring loop goes on whether the detector runs or not
TrendScoring == ContextScoringIteration

\* one iteration of the running detector
TrendIteration ==
    /\ trend_task = "running"
    /\ TotalSeen + Cardinality(SymbolsWithScore) <= MaxTrendObs
    /\ DetectTransitions
    /\ trend_first' = trend_first \ SymbolsWithScore
    /\ UNCHANGED <<trend_host, trend_task, trend_restarts>>
    /\ UNCHANGED trendFrame

\* shutdown: cancel_all(ctx_trend_task), bg_tasks.clear(); the cancelled
\* task's frame is dropped, the function attribute is not touched
StopTrends ==
    /\ trend_task = "running"
    /\ trend_task' = "stopped"
    /\ UNCHANGED <<trend_host, trend_first, trend_restarts>>
    /\ UNCHANGED <<ctxVars, trendFrame>>

\* what the restarted detector starts from: a new call of
\* context_trends_loop binds a new empty dict, a new task over
\* context_trends_iteration reads the attribute the last run left
ClearedMap == [s \in Symbols |-> None]

RestartMapCleared(host, prev) == ClearedMap

RestartMap(host, prev) == IF host = "engine" THEN ClearedMap ELSE prev

\* startup: create_task(safe_loop_template("ContextTrends", ...)) or a new
\* call of context_trends_loop
StartTrends ==
    /\ trend_task = "stopped"
    /\ trend_restarts < MaxRestarts
    /\ trend_task' = "running"
    /\ trend_restarts' = trend_restarts + 1
    /\ trend_first' = Symbols
    /\ prev_biases' = RestartMap(trend_host, prev_biases)
    /\ UNCHANGED <<ctx_latest, ctx_scores, transitions, seen, trend_host>>
    /\ UNCHANGED trendFrame

(***************************************************************************)
(* The snapshot poller's limiter (rest_collector._sem): each poll creates  *)
(* one fetch_symbol task per symbol; a task runs all its sub-calls inside  *)
(* one "async with _sem"                                                   *)
(***************************************************************************)
MaxFetchTasks == 3
MaxRounds == 2
CONCURRENCY == 2

FetchTasks == 1..MaxFetchTasks

GateInit ==
    /\ rest_sem = CONCURRENCY
    /\ ft_pc = [i \in FetchTasks |-> "none"]
    /\ ft_call = [i \in FetchTasks |-> 0]
    /\ ft_rounds = 0
    /\ ft_cancel = FALSE

\* a limiter that is given back only by a fetch that ran to its end
ReleaseOnSuccess(outcome, sem) == IF outcome = "ok" THEN sem + 1 ELSE sem

\* the value of the semaphore after "async with _sem" is left with the given
\* outcome: __aexit__ releases whatever the outcome
Release(outcome, sem) == sem + 1

FetchesOver == \A i \in FetchTasks : ft_pc[i] \notin {"waiting", "inside"}

\* tasks = [create_task(fetch_symbol(session, s)) for s in SYMBOLS]
StartPoll ==
    /\ ~ft_cancel
    /\ FetchesOver
    /\ ft_rounds < MaxRounds
    /\ ft_rounds' = ft_rounds + 1
    /\ ft_pc' = [i \in FetchTasks |-> "waiting"]
    /\ ft_call' = [i \in FetchTasks |-> 0]
    /\ UNCHANGED <<rest_sem, ft_cancel>>
    /\ UNCHANGED nonGateVars

\* "async with _sem": the task passes when the value is positive and is then
\* at its first sub-call
FetchEnter(i) ==
    /\ ft_pc[i] = "waiting"
    /\ rest_sem > 0
    /\ rest_sem' = rest_sem - 1
    /\ ft_pc' = [ft_pc EXCEPT ![i] = "inside"]
    /\ ft_call' = [ft_call EXCEPT ![i] = 1]
    /\ UNCHANGED <<ft_rounds, ft_cancel>>
    /\ UNCHANGED nonGateVars

\* after sub-call ft_call[i] is over without ending the fetch: the next
\* sub-call, or the end of the "async with" block after the last one
FetchAdvance(i) ==
    IF ft_call[i] < Len(SubCalls)
    THEN /\ ft_call' = [ft_call EXCEPT ![i] = @ + 1]
         /\ UNCHANGED <<rest_sem, ft_pc>>
    ELSE /\ rest_sem' = Release("ok", rest_sem)
         /\ ft_pc' = [ft_pc EXCEPT ![i] = "returned"]
         /\ ft_call' = [ft_call EXCEPT ![i] = 0]

\* the current sub-call answers
SubCallOk(i) ==
    /\ ft_pc[i] = "inside"
    /\ FetchAdvance(i)
    /\ UNCHANGED <<ft_rounds, ft_cancel>>
    /\ UNCHANGED nonGateVars

\* the current sub-call raises: one of the first three leaves the "async
\* with" block for the outer handler (out["error"]); a later one is passed
\* over by its own handler
SubCallRaises(i) ==
    /\ ft_pc[i] = "inside"
    /\ IF SubCalls[ft_call[i]] \in Unguarded
       THEN /\ rest_sem' = Release("error", rest_sem)
            /\ ft_pc' = [ft_pc EXCEPT ![i] = "error"]
            /\ ft_call' = [ft_call EXCEPT ![i] = 0]
       ELSE FetchAdvance(i)
    /\ UNCHANGED <<ft_rounds, ft_cancel>>
    /\ UNCHANGED nonGateVars

\* poll_loop is cancelled while it awaits gather(*tasks)
CancelPoll ==
    /\ ~ft_cancel
    /\ ~FetchesOver
    /\ ft_cancel' = TRUE
    /\ UNCHANGED <<rest_sem, ft_pc, ft_call, ft_rounds>>
    /\ UNCHANGED nonGateVars

\* gather has cancelled the task: CancelledError is raised where the task
\* waits, in acquire() or in a sub-call; no handler of fetch_symbol takes
\* it, and it leaves the "async with" block if the task is inside
FetchCancelled(i) ==
    /\ ft_cancel
    /\ ft_pc[i] \in {"waiting", "inside"}
    /\ rest_sem' = IF ft_pc[i] = "inside" THEN Release("cancelled", rest_sem)
                   ELSE rest_sem
    /\ ft_pc' = [ft_pc EXCEPT ![i] = "cancelled"]
    /\ ft_call' = [ft_call EXCEPT ![i] = 0]
    /\ UNCHANGED <<ft_rounds, ft_cancel>>
    /\ UNCHANGED nonGateVars

GateNext ==
    \/ StartPoll
    \/ CancelPoll
    \/ \E i \in FetchTasks :
          FetchEnter(i) \/ SubCallOk(i) \/ SubCallRaises(i) \/ FetchCancelled(i)

(***************************************************************************)
(* One call of quant_engine.compute_quant_metrics: a process_symbol task   *)
(* per symbol (history read, then _process_symbol_sync in a thread), the   *)
(* gather, the sort and save_quant_features_async.  The semaphore of the   *)
(* tasks is modelled above (SemAcquire).                                   *)
(***************************************************************************)
MaxQmSyms == 3

QmSyms == 1..MaxQmSyms
OiUsdVals == {0, 1}

QmInit ==
    /\ qm_pc = [i \in QmSyms |-> "read"]
    /\ qm_reads = [i \in QmSyms |-> 0]
    /\ qm_result = [i \in QmSyms |-> None]
    /\ qm_returned = None
    /\ qm_stored = <<>>

\* a task that reads the history again after a failed read
AfterReadErrorRetry == "read"

\* "except Exception: logger.exception(...); return None"
AfterReadError == "failed"

\* db.get_metrics_by_symbol_async returned rows
QmHistoryRead(i) ==
    /\ qm_pc[i] = "read"
    /\ qm_reads[i] < 2
    /\ qm_reads' = [qm_reads EXCEPT ![i] = @ + 1]
    /\ qm_pc' = [qm_pc EXCEPT ![i] = "compute"]
    /\ UNCHANGED <<qm_result, qm_returned, qm_stored>>
    /\ UNCHANGED nonQmVars

\* db.get_metrics_by_symbol_async returned no rows: return None
QmHistoryEmpty(i) ==
    /\ qm_pc[i] = "read"
    /\ qm_reads[i] < 2
    /\ qm_reads' = [qm_reads EXCEPT ![i] = @ + 1]
    /\ qm_pc' = [qm_pc EXCEPT ![i] = "empty"]
    /\ UNCHANGED <<qm_result, qm_returned, qm_stored>>
    /\ UNCHANGED nonQmVars

\* db.get_metrics_by_symbol_async raised
QmHistoryFails(i) ==
    /\ qm_pc[i] = "read"
    /\ qm_reads[i] < 2
    /\ qm_reads' = [qm_reads EXCEPT ![i] = @ + 1]
    /\ qm_pc' = [qm_pc EXCEPT ![i] = AfterReadError]
    /\ UNCHANGED <<qm_result, qm_returned, qm_stored>>
    /\ UNCHANGED nonQmVars

\* _process_symbol_sync returned the snapshot; "bad" when the server will
\* reject its INSERT
QmComputeOk(i) ==
    /\ qm_pc[i] = "compute"
    /\ \E oi \in OiUsdVals, bad \in BOOLEAN :
          qm_result' = [qm_result EXCEPT
                           ![i] = Some([symbol |-> i, oi_usd |-> oi, bad |-> bad])]
    /\ qm_pc' = [qm_pc EXCEPT ![i] = "done"]
    /\ UNCHANGED <<qm_reads, qm_returned, qm_stored>>
    /\ UNCHANGED nonQmVars

\* _process_symbol_sync caught an exception of its own and returned None, or
\* to_thread raised and process_symbol returned None
QmComputeFails(i) ==
    /\ qm_pc[i] = "compute"
    /\ qm_pc' = [qm_pc EXCEPT ![i] = "failed"]
    /\ UNCHANGED <<qm_reads, qm_result, qm_returned, qm_stored>>
    /\ UNCHANGED nonQmVars

\* "if r: computed.append(r)" over the gathered results, in task order
RECURSIVE Computed(_, _)
Computed(results, i) ==
    IF i > Len(results) THEN <<>>
    ELSE (IF results[i] = None THEN <<>> ELSE <<Val(results[i])>>)
         \o Computed(results, i + 1)

\* computed.sort(key=lambda x: (x.get("oi_usd") or 0), reverse=True): a
\* stable sort, rows of equal key keep their order
RECURSIVE InsertByOi(_, _)
InsertByOi(sorted, row) ==
    IF sorted = <<>> THEN <<row>>
    ELSE IF Head(sorted).oi_usd >= row.oi_usd
         THEN <<Head(sorted)>> \o InsertByOi(Tail(sorted), row)
         ELSE <<row>> \o sorted

RECURSIVE SortByOi(_)
SortByOi(rows) ==
    IF rows = <<>> THEN <<>>
    ELSE InsertByOi(SortByOi(SubSeq(rows, 1, Len(rows) - 1)), rows[Len(rows)])

\* save_quant_features_async: every INSERT in one transaction, each in its
\* own try; when the pool cannot be had the call raises and
\* compute_quant_metrics logs a warning
save_quant_features_async(features, pool_ok) ==
    IF pool_ok THEN Commit(RowByRow(NewTx, features)) ELSE <<>>

\* gather(*tasks, return_exceptions=True) returns when every task has; the
\* rest of compute_quant_metrics
QmGather ==
    /\ qm_returned = None
    /\ \A i \in QmSyms : qm_pc[i] \in {"empty", "failed", "done"}
    /\ LET computed == SortByOi(Computed(qm_result, 1))
       IN /\ qm_returned' = Some(computed)
          /\ \E pool_ok \in BOOLEAN :
                qm_stored' = save_quant_features_async(computed, pool_ok)
    /\ UNCHANGED <<qm_pc, qm_reads, qm_result>>
    /\ UNCHANGED nonQmVars

QmNext ==
    \/ QmGather
    \/ \E i \in QmSyms :
          \/ QmHistoryRead(i) \/ QmHistoryEmpty(i) \/ QmHistoryFails(i)
          \/ QmComputeOk(i) \/ QmComputeFails(i)

(***************************************************************************)
(* app.shutdown: the continuity snapshot, ws_manager.stop_all, cancel_all  *)
(* over bg_tasks and pipeline_task, close_db_async                         *)
(***************************************************************************)
MaxBgTasks == 2

\* index 1 is pipeline_task (db_writer), the others are bg_tasks
PipelineTask == 1
TrackedTasks == 1..(MaxBgTasks + 1)

\* shutdown is called on a served application: the tracked tasks run or have
\* ended by themselves; ws_started says whether stop_all is called
SdInit ==
    /\ sd_pc = "snapshot"
    /\ sd_ws \in {"off", "running"}
    /\ sd_tasks \in [TrackedTasks -> {"running", "done"}]
    /\ sd_buffer \in BOOLEAN
    /\ sd_final_flushes = 0
    /\ sd_pool = "open"

\* the snapshot is written (or not: the exception is logged)
SdSnapshot ==
    /\ sd_pc = "snapshot"
    /\ sd_pc' = IF sd_ws = "running" THEN "stop_ws" ELSE "cancel"
    /\ UNCHANGED <<sd_ws, sd_tasks, sd_buffer, sd_final_flushes, sd_pool>>
    /\ UNCHANGED nonSdVars

\* "if ws_started: await ws_manager.stop_all()": the call is made
SdStopAllCalled ==
    /\ sd_pc = "stop_ws"
    /\ sd_ws = "running"
    /\ sd_ws' = "stopping"
    /\ UNCHANGED <<sd_pc, sd_tasks, sd_buffer, sd_final_flushes, sd_pool>>
    /\ UNCHANGED nonSdVars

\* stop_all is over: it returned, or its session.close() raised after the
\* connection tasks were gathered and shutdown logged the warning
SdStopAllOver ==
    /\ sd_pc = "stop_ws"
    /\ sd_ws = "stopping"
    /\ sd_ws' = "stopped"
    /\ sd_pc' = "cancel"
    /\ UNCHANGED <<sd_tasks, sd_buffer, sd_final_flushes, sd_pool>>
    /\ UNCHANGED nonSdVars

\* cancel_all: "if t and not t.done(): t.cancel()" for every tracked task
SdCancelAll ==
    /\ sd_pc = "cancel"
    /\ sd_tasks' = [t \in TrackedTasks |->
                       IF sd_tasks[t] = "done" THEN "done" ELSE "cancelling"]
    /\ sd_pc' = "gather"
    /\ UNCHANGED <<sd_ws, sd_buffer, sd_final_flushes, sd_pool>>
    /\ UNCHANGED nonSdVars

\* a running db_writer dequeues or flushes
SdWriterWorks ==
    /\ sd_tasks[PipelineTask] = "running"
    /\ sd_buffer' \in BOOLEAN
    /\ sd_buffer' # sd_buffer
    /\ UNCHANGED <<sd_pc, sd_ws, sd_tasks, sd_final_flushes, sd_pool>>
    /\ UNCHANGED nonSdVars

\* a task ends by itself while the application runs
SdTaskEnds(t) ==
    /\ sd_tasks[t] = "running"
    /\ sd_tasks' = [sd_tasks EXCEPT ![t] = "done"]
    /\ UNCHANGED <<sd_pc, sd_ws, sd_buffer, sd_final_flushes, sd_pool>>
    /\ UNCHANGED nonSdVars

\* the CancelledError reaches the task; db_writer goes on to
\* flush_remaining when its buffer holds payloads, every other task ends
SdTaskCancelled(t) ==
    /\ sd_tasks[t] = "cancelling"
    /\ sd_tasks' = [sd_tasks EXCEPT
                       ![t] = IF t = PipelineTask /\ sd_buffer THEN "flushing"
                              ELSE "done"]
    /\ UNCHANGED <<sd_pc, sd_ws, sd_buffer, sd_final_flushes, sd_pool>>
    /\ UNCHANGED nonSdVars

\* flush_remaining is over: db_writer_worker(buffer) returned, buffer.clear()
SdFinalFlushDone ==
    /\ sd_tasks[PipelineTask] = "flushing"
    /\ sd_tasks' = [sd_tasks EXCEPT ![PipelineTask] = "done"]
    /\ sd_buffer' = FALSE
    /\ sd_final_flushes' = sd_final_flushes + 1
    /\ UNCHANGED <<sd_pc, sd_ws, sd_pool>>
    /\ UNCHANGED nonSdVars

\* a cancel_all that does not await the tasks
GatheredNoWait == TRUE

\* "await asyncio.gather(*tasks, return_exceptions=True)" returns when every
\* task has finished
Gathered == \A t \in TrackedTasks : sd_tasks[t] = "done"

\* cancel_all returns; bg_tasks.clear()
SdGatherDone ==
    /\ sd_pc = "gather"
    /\ Gathered
    /\ sd_pc' = "close"
    /\ UNCHANGED <<sd_ws, sd_tasks, sd_buffer, sd_final_flushes, sd_pool>>
    /\ UNCHANGED nonSdVars

\* close_db_async: _pool.close(), _pool = None
SdCloseDb ==
    /\ sd_pc = "close"
    /\ sd_pool' = "closed"
    /\ sd_pc' = "done"
    /\ UNCHANGED <<sd_ws, sd_tasks, sd_buffer, sd_final_flushes>>
    /\ UNCHANGED nonSdVars

SdNext ==
    \/ SdSnapshot \/ SdStopAllCalled \/ SdStopAllOver \/ SdCancelAll
    \/ SdWriterWorks \/ SdFinalFlushDone \/ SdGatherDone \/ SdCloseDb
    \/ \E t \in TrackedTasks : SdTaskEnds(t) \/ SdTaskCancelled(t)

(***************************************************************************)
(* Concurrent persistence operations on a missing or closed pool:          *)
(* db.ensure_connected and db.init_db_async, suspension point by           *)
(* suspension point                                                        *)
(***************************************************************************)
MaxCallers == 3

Callers == 1..MaxCallers

InInit ==
    /\ in_pc = [c \in Callers |-> "idle"]
    /\ in_attempt = [c \in Callers |-> 0]
    /\ in_lock = 0
    /\ in_pool \in {"none", "closed"}
    /\ in_tables = FALSE
    /\ in_created = 0
    /\ in_early = {}

\* "if _pool and not closed_flag: return True" of ensure_connected, and the
\* same test after init_db_async returned
PoolUsable == in_pool = "open"

\* an init_db_async that never finds a pool to reuse
ReusePoolNever == FALSE

\* "if _pool and not getattr(_pool, '_closed', True): return" under the lock
ReusePool == in_pool = "open"

\* a persistence operation is invoked: the quick check of ensure_connected,
\* then the first init_db_async call up to "async with _init_lock"
InCall(c) ==
    /\ in_pc[c] = "idle"
    /\ IF PoolUsable
       THEN /\ in_pc' = [in_pc EXCEPT ![c] = "use"]
            /\ UNCHANGED in_attempt
       ELSE /\ in_pc' = [in_pc EXCEPT ![c] = "lock"]
            /\ in_attempt' = [in_attempt EXCEPT ![c] = 1]
    /\ UNCHANGED <<in_lock, in_pool, in_tables, in_created, in_early>>
    /\ UNCHANGED nonInitVars

\* the caller gets _init_lock: it returns at once when a pool is there
\* (ensure_connected then finds it usable), else it awaits create_pool
InLockAcquired(c) ==
    /\ in_pc[c] = "lock"
    /\ in_lock = 0
    /\ IF ReusePool
       THEN /\ in_pc' = [in_pc EXCEPT ![c] = "use"]
            /\ UNCHANGED in_lock
       ELSE /\ in_pc' = [in_pc EXCEPT ![c] = "creating"]
            /\ in_lock' = c
    /\ UNCHANGED <<in_attempt, in_pool, in_tables, in_created, in_early>>
    /\ UNCHANGED nonInitVars

\* create_pool returned: _pool is assigned, the caller goes on to create the
\* tables, still holding the lock
InCreateOk(c) ==
    /\ in_pc[c] = "creating"
    /\ in_pool' = "open"
    /\ in_tables' = FALSE
    /\ in_created' = in_created + 1
    /\ in_pc' = [in_pc EXCEPT ![c] = "tables"]
    /\ UNCHANGED <<in_attempt, in_lock, in_early>>
    /\ UNCHANGED nonInitVars

\* create_pool raised or timed out: the lock is released, ensure_connected
\* logs and sleeps
InCreateFail(c) ==
    /\ in_pc[c] = "creating"
    /\ in_lock' = 0
    /\ in_pc' = [in_pc EXCEPT ![c] = "backoff"]
    /\ UNCHANGED <<in_attempt, in_pool, in_tables, in_created, in_early>>
    /\ UNCHANGED nonInitVars

\* the CREATE TABLE statements are done: init_db_async returns, the lock is
\* released and ensure_connected returns True
InTablesOk(c) ==
    /\ in_pc[c] = "tables"
    /\ in_tables' = TRUE
    /\ in_lock' = 0
    /\ in_pc' = [in_pc EXCEPT ![c] = "use"]
    /\ UNCHANGED <<in_attempt, in_pool, in_created, in_early>>
    /\ UNCHANGED nonInitVars

\* a CREATE TABLE statement raised: the lock is released, _pool stays
\* assigned, ensure_connected logs and sleeps
InTablesFail(c) ==
    /\ in_pc[c] = "tables"
    /\ in_lock' = 0
    /\ in_pc' = [in_pc EXCEPT ![c] = "backoff"]
    /\ UNCHANGED <<in_attempt, in_pool, in_tables, in_created, in_early>>
    /\ UNCHANGED nonInitVars

\* "await asyncio.sleep(delay)" is over: the next attempt, or after the last
\* one ensure_connected returns False and the operation goes to
\* _pool.acquire() all the same
InBackoffDone(c) ==
    /\ in_pc[c] = "backoff"
    /\ IF in_attempt[c] < RETRIES
       THEN /\ in_attempt' = [in_attempt EXCEPT ![c] = @ + 1]
            /\ in_pc' = [in_pc EXCEPT ![c] = "lock"]
       ELSE /\ in_pc' = [in_pc EXCEPT ![c] = IF in_pool = "open" THEN "use"
                                               ELSE "failed"]
            /\ UNCHANGED in_attempt
    /\ UNCHANGED <<in_lock, in_pool, in_tables, in_created, in_early>>
    /\ UNCHANGED nonInitVars

\* the operation acquires a connection from _pool and runs its query
InUse(c) ==
    /\ in_pc[c] = "use"
    /\ in_pc' = [in_pc EXCEPT ![c] = "done"]
    /\ in_early' = IF in_tables THEN in_early ELSE in_early \cup {c}
    /\ UNCHANGED <<in_attempt, in_lock, in_pool, in_tables, in_created>>
    /\ UNCHANGED nonInitVars

InNext ==
    \E c \in Callers :
       \/ InCall(c) \/ InLockAcquired(c) \/ InCreateOk(c) \/ InCreateFail(c)
       \/ InTablesOk(c) \/ InTablesFail(c) \/ InBackoffDone(c) \/ InUse(c)

(***************************************************************************)
(* Specifications                                                          *)
(***************************************************************************)
IdleZ == z_rows = <<>> /\ z_out = None
IdleCorr == cc_a = <<>> /\ cc_b = <<>> /\ cc_out = None

\* the ingestion pipeline
CoreIdle == PipeInit /\ RegimeInit /\ CtxInit /\ IdleZ /\ IdleCorr
IdleCall == fn_args = None /\ fn_out = None
IdleLim ==
    /\ lim_pool_max = 0
    /\ lim_waiting = 0 /\ lim_history = 0 /\ lim_compute = 0 /\ lim_done = 0
IdleLoops ==
    /\ loop_pc = <<>> /\ loop_fails = <<>> /\ loop_cancel = <<>>
    /\ loops_main = "idle"
IdleChain ==
    /\ ch_diag = <<>> /\ ch_sig = <<>> /\ ch_conf = <<>> /\ ch_regime = <<>>
    /\ ch_bias = <<>> /\ ch_ran = {} /\ ch_intervals = 0
IdlePool ==
    /\ db_pool = "none" /\ pool_gen = 0 /\ db_up = TRUE /\ pool_events = 0
    /\ op_pc = <<>> /\ op_attempt = <<>> /\ op_missing = <<>> /\ op_gen0 = <<>>
    /\ op_ran = <<>> /\ op_calls = <<>> /\ caller_pc = <<>>
IdleTrend ==
    /\ trend_host = "app"
    /\ trend_task = "running"
    /\ trend_first = {}
    /\ trend_restarts = 0
IdleGate ==
    /\ rest_sem = 0
    /\ ft_pc = <<>>
    /\ ft_call = <<>>
    /\ ft_rounds = 0
    /\ ft_cancel = FALSE
IdleQm ==
    /\ qm_pc = <<>>
    /\ qm_reads = <<>>
    /\ qm_result = <<>>
    /\ qm_returned = None
    /\ qm_stored = <<>>
IdleSd ==
    /\ sd_pc = "serving"
    /\ sd_ws = "off"
    /\ sd_tasks = <<>>
    /\ sd_buffer = FALSE
    /\ sd_final_flushes = 0
    /\ sd_pool = "open"
IdleInit ==
    /\ in_pc = <<>>
    /\ in_attempt = <<>>
    /\ in_lock = 0
    /\ in_pool = "open"
    /\ in_tables = TRUE
    /\ in_created = 0
    /\ in_early = {}
IdleEng == IdleCall /\ IdleLim /\ IdleLoops /\ IdleChain /\ IdlePool /\ IdleTrend /\ IdleGate /\ IdleQm /\ IdleSd /\ IdleInit
IoIdle == WsInit /\ RestInit /\ IdleFetch /\ IdleSave
ExtIdle == IoIdle /\ IdleEng
IdleNonCall == CoreIdle /\ IoIdle /\ IdleLim /\ IdleLoops /\ IdleChain /\ IdlePool /\ IdleTrend /\ IdleGate /\ IdleQm /\ IdleSd /\ IdleInit
IdleNonLim == CoreIdle /\ IoIdle /\ IdleCall /\ IdleLoops /\ IdleChain /\ IdlePool /\ IdleTrend /\ IdleGate /\ IdleQm /\ IdleSd /\ IdleInit
IdleNonLoop == CoreIdle /\ IoIdle /\ IdleCall /\ IdleLim /\ IdleChain /\ IdlePool /\ IdleTrend /\ IdleGate /\ IdleQm /\ IdleSd /\ IdleInit
IdleNonChain == CoreIdle /\ IoIdle /\ IdleCall /\ IdleLim /\ IdleLoops /\ IdlePool /\ IdleTrend /\ IdleGate /\ IdleQm /\ IdleSd /\ IdleInit
IdleNonPool == CoreIdle /\ IoIdle /\ IdleCall /\ IdleLim /\ IdleLoops /\ IdleChain /\ IdleTrend /\ IdleGate /\ IdleQm /\ IdleSd /\ IdleInit
IdleNonTrend == CoreIdle /\ IoIdle /\ IdleCall /\ IdleLim /\ IdleLoops /\ IdleChain /\ IdlePool /\ IdleGate /\ IdleQm /\ IdleSd /\ IdleInit
IdleNonGate == CoreIdle /\ IoIdle /\ IdleCall /\ IdleLim /\ IdleLoops /\ IdleChain /\ IdlePool /\ IdleTrend /\ IdleQm /\ IdleSd /\ IdleInit
IdleNonQm == CoreIdle /\ IoIdle /\ IdleCall /\ IdleLim /\ IdleLoops /\ IdleChain /\ IdlePool /\ IdleTrend /\ IdleGate /\ IdleSd /\ IdleInit
IdleNonSd == CoreIdle /\ IoIdle /\ IdleCall /\ IdleLim /\ IdleLoops /\ IdleChain /\ IdlePool /\ IdleTrend /\ IdleGate /\ IdleQm /\ IdleInit
IdleNonInit == CoreIdle /\ IoIdle /\ IdleCall /\ IdleLim /\ IdleLoops /\ IdleChain /\ IdlePool /\ IdleTrend /\ IdleGate /\ IdleQm /\ IdleSd
Init == CoreIdle /\ ExtIdle
Spec == Init /\ [][Next]_vars

\* the pipeline with the scheduler's fairness: the db_writer task and the clock
\* keep running; no producer is obliged to send and nobody is obliged to cancel
FairSpec ==
    /\ Spec
    /\ WF_vars(WriterGet)
    /\ WF_vars(WriterFlushDone)
    /\ WF_vars(WriterWake)
    /\ WF_vars(FinalFlushDone)
    /\ WF_vars(Tick)

\* the regime stage
RegimeNext == RegimeIteration
RegimeSpec == Init /\ [][RegimeNext]_vars

\* context scoring and the transition detector
CtxNext == ContextScoringIteration \/ ContextTrendsIteration
CtxSpec == Init /\ [][CtxNext]_vars

\* the composite z-score over bounded histories
ZSpecInit == PipeInit /\ RegimeInit /\ CtxInit /\ ZInit /\ IdleCorr /\ ExtIdle
ZNext == ProcessSymbolZ
ZSpec == ZSpecInit /\ [][ZNext]_vars

\* safe_corrcoef over bounded series
CorrSpecInit == PipeInit /\ RegimeInit /\ CtxInit /\ IdleZ /\ CorrInit /\ ExtIdle
CorrNext == ComputeCorr
CorrSpec == CorrSpecInit /\ [][CorrNext]_vars

\* the stream manager and its connection tasks
WsSpec == Init /\ [][WsNext]_vars

\* the manager under the event loop's fairness: a stop_all in progress and a
\* cancelled task keep running; nobody is obliged to call start_all or stop_all
WsFairSpec ==
    /\ WsSpec
    /\ WF_vars(StopSleepDone)
    /\ WF_vars(StopGatherDone)
    /\ WF_vars(StopCloseDone)
    /\ \A i \in ConnIds : WF_vars(TaskCancelled(i))

\* the snapshot poller
RestSpec == Init /\ [][RestNext]_vars

\* start_all on an idle manager
PackSpecInit == CoreIdle /\ PackInit /\ RestInit /\ IdleFetch /\ IdleSave /\ IdleEng
PackNext == StartAllBody
PackSpec == PackSpecInit /\ [][PackNext]_vars

\* one connection loop
ConnSpecInit == CoreIdle /\ ConnInit /\ RestInit /\ IdleFetch /\ IdleSave /\ IdleEng
ConnSpec == ConnSpecInit /\ [][ConnNext]_vars

\* one fetch_symbol call
FetchSpecInit == CoreIdle /\ WsInit /\ RestInit /\ FetchInit /\ IdleSave /\ IdleEng
FetchNext == FetchSymbol
FetchSpec == FetchSpecInit /\ [][FetchNext]_vars

\* one save_metrics_v3_async call
SaveSpecInit == CoreIdle /\ WsInit /\ RestInit /\ IdleFetch /\ SaveInit /\ IdleEng
SaveNext == SaveMetricsCall
SaveSpec == SaveSpecInit /\ [][SaveNext]_vars

\* one item through db_writer_worker
MergeSpecInit == IdleNonCall /\ MergeInit
MergeNext == MergeCall
MergeSpec == MergeSpecInit /\ [][MergeNext]_vars

\* the per-symbol tasks of one compute_quant_metrics call
LimSpecInit == IdleNonLim /\ LimInit
LimSpec == LimSpecInit /\ [][LimNext]_vars

\* one compute_confluence_scores call
ConfluenceSpecInit == IdleNonCall /\ ConfluenceInit
ConfluenceNext == ConfluenceCall
ConfluenceSpec == ConfluenceSpecInit /\ [][ConfluenceNext]_vars

\* the engine's loop tasks under the event loop's fairness: a cancelled task
\* and the gathering task keep running; nobody is obliged to cancel
LoopsSpecInit == IdleNonLoop /\ LoopsInit
LoopsSpec == LoopsSpecInit /\ [][LoopsNext]_vars
LoopsFairSpec ==
    /\ LoopsSpec
    /\ \A i \in LoopIds : WF_vars(LoopCancelled(i))
    /\ WF_vars(GatherLoops)

\* the stage loops of one symbol whose features satisfy the accumulation
\* conditions from the start
ChainSpecInit == IdleNonChain /\ ChainInit
ChainSpec == ChainSpecInit /\ [][ChainNext]_vars

\* the confidence of one feature snapshot
FamilySpecInit == IdleNonCall /\ FamilyInit
FamilyNext == FamilyCall
FamilySpec == FamilySpecInit /\ [][FamilyNext]_vars

\* operations on a pool that may be missing or closed
PoolSpecInit == IdleNonPool /\ PoolInit
PoolSpec == PoolSpecInit /\ [][PoolNext]_vars

TrendSpecInit == IdleNonTrend /\ TrendInit
TrendNext == TrendScoring \/ TrendIteration \/ StopTrends \/ StartTrends
TrendSpec == TrendSpecInit /\ [][TrendNext]_vars

GateSpecInit == IdleNonGate /\ GateInit
GateSpec == GateSpecInit /\ [][GateNext]_vars

\* one compute_quant_metrics call
QmSpecInit == IdleNonQm /\ QmInit
QmSpec == QmSpecInit /\ [][QmNext]_vars

\* one shutdown of the application
SdSpecInit == IdleNonSd /\ SdInit
SdSpec == SdSpecInit /\ [][SdNext]_vars

\* persistence operations invoked concurrently on a missing or closed pool
InSpecInit == IdleNonInit /\ InInit
InSpec == InSpecInit /\ [][InNext]_vars

(***************************************************************************)
(* Properties                                                              *)
(***************************************************************************)

\* C1: a stream event that arrives while the queue holds its maximum number of
\* items is dropped with a warning and leaves the queued items unchanged; the
\* callback is never blocked (it can always run); the queue length never
\* exceeds its capacity.
C1_Backpressure ==
    /\ [](Len(queue) <= QueueMax)
    /\ [](produced < MaxEvents => ENABLED (\E sym \in Symbols : on_message_callback(sym)))
    /\ [][(produced' # produced /\ Len(queue) >= QueueMax)
            => (queue' = queue /\ dropped' = dropped + 1)]_vars

C1_Witness == dropped > 0 /\ Len(queue) = QueueMax

\* C2: once the db_writer task has been cancelled, flush_coro has run exactly
\* once, whatever the suspension point; at exit the buffer is empty and what
\* the final flush handed to the storage writer is exactly the buffer as it was
\* when the cancellation arrived (one worker call if it was non-empty, none if
\* it was empty).
C2_OneFinalFlush ==
    /\ flush_calls <= 1
    /\ final_worker_calls <= 1
    /\ (cancel_at # "none") <=> (flush_calls = 1)
    /\ w_pc \in {"final", "done"} <=> cancel_at # "none"
    /\ w_pc = "done" =>
          /\ buffer = <<>>
          /\ final_batch = cancel_buffer
          /\ final_worker_calls = (IF cancel_buffer # <<>> THEN 1 ELSE 0)

C2_Witness == w_pc = "done" /\ cancel_at = "sleep" /\ final_worker_calls = 1

C2_WitnessGet == w_pc = "done" /\ cancel_at = "get" /\ final_worker_calls = 1

C2_WitnessFlush == w_pc = "done" /\ cancel_at = "flush" /\ flush_calls = 1

\* C3: an item sitting in the buffer when flush_interval has passed since the
\* last flush is eventually flushed, also when no further item arrives.
C3_TimeFlush ==
    (buffer # <<>> /\ (now - last_flush) > FlushInterval) ~> (buffer = <<>>)

C3_Stuck ==
    /\ buffer # <<>>
    /\ (now - last_flush) > FlushInterval
    /\ w_pc = "get"
    /\ queue = <<>>

\* C4: the metrics table holds at most one row per (symbol, timeframe,
\* timestamp).
C4_OneRowPerKey ==
    \A i, j \in 1..Len(metrics) :
        (/\ metrics[i].symbol = metrics[j].symbol
         /\ metrics[i].timeframe = metrics[j].timeframe
         /\ metrics[i].updated_at = metrics[j].updated_at) => i = j

\* ---- transition detector ----
RECURSIVE ChangedPairs(_)
ChangedPairs(bs) ==
    IF Len(bs) < 2 THEN <<>>
    ELSE IF bs[1] # bs[2]
         THEN <<<<bs[1], bs[2]>>>> \o ChangedPairs(Tail(bs))
         ELSE ChangedPairs(Tail(bs))

TransitionsOf(sym) ==
    LET mine == SelectSeq(transitions, LAMBDA t : t.symbol = sym)
    IN [i \in 1..Len(mine) |-> <<mine[i].from_bias, mine[i].to_bias>>]

ExampleBiases == <<"neutral", "neutral", "bullish", "bullish", "bearish">>

RegimeLabels == {"accumulation", "expansion", "distribution", "exhaustion", "neutral"}

\* C6: any two RegimeRecords classified from the same (confluence, volatility)
\* pair carry the same regime and the same confidence, whatever their symbols
\* and whatever was written before them.
C6_Deterministic ==
    \A i, j \in 1..Len(quant_regimes) :
        (/\ quant_regimes[i].confluence_score = quant_regimes[j].confluence_score
         /\ quant_regimes[i].volatility = quant_regimes[j].volatility)
        => (/\ quant_regimes[i].regime = quant_regimes[j].regime
            /\ quant_regimes[i].confidence = quant_regimes[j].confidence)

C6_Witness ==
    \E i, j \in 1..Len(quant_regimes) :
        /\ i < j
        /\ quant_regimes[i].symbol # quant_regimes[j].symbol
        /\ quant_regimes[i].confluence_score = quant_regimes[j].confluence_score
        /\ quant_regimes[i].volatility = quant_regimes[j].volatility
        /\ quant_regimes[j].regime = "neutral"
        /\ \E k \in 1..(i - 1) : quant_regimes[k].regime # "neutral"

\* the record the last iteration wrote for a symbol it fetched
LastRecord(sym) ==
    LET k == Cardinality(DOMAIN regime_rows)
        n == Len(quant_regimes)
        i == CHOOSE i \in (n - k + 1)..n : quant_regimes[i].symbol = sym
    IN quant_regimes[i]

\* C7: every record carries exactly one of the five labels: accumulation iff
\* confluence > 0.15 and volatility < 0.025, expansion iff confluence > 0.15
\* and volatility >= 0.025, distribution iff confluence < -0.15 and volatility
\* < 0.025, exhaustion iff confluence < -0.15 and volatility >= 0.025, neutral
\* otherwise; a missing confluence or volatility is classified as 0.
C7_RegimeTable ==
    /\ \A i \in 1..Len(quant_regimes) :
          LET r == quant_regimes[i]
              c == r.confluence_score
              v == r.volatility
          IN /\ r.regime \in RegimeLabels
             /\ (r.regime = "accumulation") <=> (c > 150 /\ v < 25)
             /\ (r.regime = "expansion") <=> (c > 150 /\ v >= 25)
             /\ (r.regime = "distribution") <=> (c < -150 /\ v < 25)
             /\ (r.regime = "exhaustion") <=> (c < -150 /\ v >= 25)
             /\ (r.regime = "neutral") <=> (c >= -150 /\ c <= 150)
    /\ \A sym \in DOMAIN regime_rows :
          LET row == regime_rows[sym]
              r == LastRecord(sym)
          IN /\ row.confluence_score = None =>
                    (r.confluence_score = 0 /\ r.regime = "neutral")
             /\ row.confluence_score # None =>
                    r.confluence_score = Val(row.confluence_score)
             /\ row.volatility = None =>
                    (r.volatility = 0 /\ r.regime \in {"accumulation", "distribution", "neutral"})
             /\ row.volatility # None => r.volatility = Val(row.volatility)

C7_Witness ==
    /\ \E i \in 1..Len(quant_regimes) :
          /\ quant_regimes[i].regime = "neutral"
          /\ quant_regimes[i].confluence_score = 150
    /\ \E i \in 1..Len(quant_regimes) :
          /\ quant_regimes[i].regime = "exhaustion"
          /\ quant_regimes[i].volatility = 25
    /\ \E sym \in DOMAIN regime_rows : regime_rows[sym].confluence_score = None

\* C8 as stated: every record's confidence is the magnitude of its confluence
\* score, neutral records included.
C8_ConfidenceIsMagnitude ==
    \A i \in 1..Len(quant_regimes) :
        quant_regimes[i].confidence = Abs(quant_regimes[i].confluence_score)

\* C8 amended: every non-neutral record's confidence is the magnitude of its
\* confluence score; a neutral record's confidence is the fixed value 0.1.
C8_ConfidenceAmended ==
    \A i \in 1..Len(quant_regimes) :
        LET r == quant_regimes[i]
        IN IF r.regime = "neutral"
           THEN r.confidence = 100
           ELSE r.confidence = Abs(r.confluence_score)

C8_Witness ==
    /\ \E i \in 1..Len(quant_regimes) :
          /\ quant_regimes[i].regime = "distribution"
          /\ quant_regimes[i].confidence = 151
    /\ \E i \in 1..Len(quant_regimes) :
          /\ quant_regimes[i].regime = "neutral"
          /\ quant_regimes[i].confluence_score = 150

\* ---- composite z-score ----
ZKeys == {"oi", "top", "obi", "funding"}
ZWeight(k) == IF k = "oi" THEN 4 ELSE 2
ZPresent(comps) == {k \in ZKeys : comps[k] # None}
ZW(comps, k) == IF comps[k] # None THEN ZWeight(k) ELSE 0
ZVW(comps, k) == IF comps[k] # None THEN Val(comps[k]) * ZWeight(k) ELSE 0

\* C9: the composite is null iff all four component z-scores are null; else it
\* is the sum of weight x z over the present components divided by the sum of
\* the weights of the present components only, so it lies between the smallest
\* and the largest present component.
C9_Composite ==
    z_out # None =>
        LET comps == Val(z_out).comps
            zsc == Val(z_out).zsc
            P == ZPresent(comps)
        IN /\ (zsc = None) <=> (P = {})
           /\ P # {} =>
                 LET f == Val(zsc)
                 IN /\ f.den = ZW(comps, "oi") + ZW(comps, "top")
                               + ZW(comps, "obi") + ZW(comps, "funding")
                    /\ f.num = ZVW(comps, "oi") + ZVW(comps, "top")
                               + ZVW(comps, "obi") + ZVW(comps, "funding")
                    /\ \E lo, hi \in P :
                          /\ Val(comps[lo]) * f.den <= f.num
                          /\ f.num <= Val(comps[hi]) * f.den

C9_Witness ==
    /\ z_out # None
    /\ Val(z_out).comps.oi = Some(-1000)
    /\ Val(z_out).comps.top = None
    /\ Val(z_out).comps.obi = Some(1000)
    /\ Val(z_out).comps.funding = None
    /\ Val(z_out).zsc = Some([num |-> -2000, den |-> 6])

\* ---- safe_corrcoef ----
ConstantSeries(s) == \A i, j \in 1..Len(s) : s[i] = s[j]

Degenerate(a, b) ==
    \/ Len(a) # Len(b)
    \/ a = <<>>
    \/ b = <<>>
    \/ ConstantSeries(a)
    \/ ConstantSeries(b)
    \/ \A i \in 1..Len(a) : ~(Finite(a[i]) /\ Finite(b[i]))

C12_StartStopNoOp ==
    [][/\ (start_calls' # start_calls /\ manager_tasks # <<>>) =>
              UNCHANGED <<manager_tasks, manager_session, manager_stop,
                          manager_symbols, sessions_opened, connect_budget>>
       /\ (stop_calls' # stop_calls /\ stop_pc = "idle") =>
              UNCHANGED <<manager_tasks, manager_session, manager_stop,
                          manager_symbols, sessions_opened, connect_budget>>
       /\ manager_tasks # <<>> =>
              /\ sessions_opened' = sessions_opened
              /\ manager_session' = manager_session \/ manager_session' = None
              /\ \/ manager_tasks' = <<>>
                 \/ /\ Len(manager_tasks') = Len(manager_tasks)
                    /\ \A i \in 1..Len(manager_tasks) :
                          manager_tasks'[i].tokens = manager_tasks[i].tokens
      ]_vars

C12_Witness ==
    /\ start_calls = 2
    /\ stop_calls = 1
    /\ sessions_opened = 1
    /\ manager_tasks # <<>>
    /\ manager_session = Some(1)

\* C13: a stop_all that found tasks always returns, with no task left, the
\* session closed and the stop event dropped; from the moment the stop event
\* is set no connection is attempted or established; the tasks have all
\* finished when stop_all drops them; and the next start_all on the cleared
\* manager can run and creates tasks that have not run, with a new stop event
\* that is not set.
C13_StopCompletes ==
    /\ (stop_pc = "sleep") ~>
           (stop_pc = "idle" /\ manager_tasks = <<>> /\ manager_session = None
            /\ manager_stop = None)
    /\ [][StopIsSet =>
              /\ connect_budget' = connect_budget
              /\ \A i \in 1..Len(manager_tasks) :
                    i \in 1..Len(manager_tasks') =>
                        /\ manager_tasks'[i].pc = "reading" =>
                               manager_tasks[i].pc = "reading"
                        /\ manager_tasks'[i].pc = "connecting" =>
                               manager_tasks[i].pc = "connecting"]_vars
    /\ [][(stop_pc = "gather" /\ stop_pc' = "close") =>
              \A i \in 1..Len(manager_tasks) : manager_tasks[i].pc = "done"]_vars
    /\ [][(stop_pc = "close" /\ stop_pc' = "idle") =>
              (manager_tasks' = <<>> /\ manager_session' = None
               /\ manager_stop' = None)]_vars
    /\ []((stop_pc = "idle" /\ start_pending # <<>>) => ENABLED StartAllBody)
    /\ [][(manager_tasks = <<>> /\ manager_tasks' # <<>>) =>
              /\ manager_stop' # None /\ ~Val(manager_stop').set
              /\ manager_session' = Some(sessions_opened')
              /\ sessions_opened' = sessions_opened + 1
              /\ \A i \in 1..Len(manager_tasks') :
                    manager_tasks'[i].pc = "new" /\ ~manager_tasks'[i].cancel]_vars

C13_Witness ==
    /\ stop_calls = 1
    /\ sessions_opened = 2
    /\ manager_session = Some(2)
    /\ Len(manager_tasks) = 2
    /\ manager_tasks[1].pc = "connecting"

RECURSIVE Flatten(_)
Flatten(groups) ==
    IF groups = <<>> THEN <<>> ELSE Head(groups) \o Flatten(Tail(groups))

TaskGroups(tasks) == [i \in 1..Len(tasks) |-> tasks[i].tokens]

\* C14: when start_all starts an idle manager, the token lists of the tasks
\* it creates, taken in order, are the stream tokens of the cleaned symbols
\* cut into consecutive pieces: concatenated they give back the token list,
\* no piece is empty and none is longer than max_per_conn.
C14_Packing ==
    [][(start_calls' # start_calls /\ manager_tasks = <<>>) =>
          LET args == Head(start_pending)
              toks == AllTokens(CleanSymbols(args.symbols), args.streams)
          IN /\ Flatten(TaskGroups(manager_tasks')) = toks
             /\ \A i \in 1..Len(manager_tasks') :
                   /\ Len(manager_tasks'[i].tokens) >= 1
                   /\ Len(manager_tasks'[i].tokens) <= args.max_per_conn
      ]_vars

C14_Witness ==
    /\ start_calls = 1
    /\ Len(manager_tasks) = 2
    /\ manager_tasks[1].tokens =
           <<<<"btcusdt", "ticker">>, <<"btcusdt", "aggTrade">>,
             <<"ethusdt", "ticker">>>>
    /\ manager_tasks[2].tokens = <<<<"ethusdt", "aggTrade">>>>

RECURSIVE Pow2(_)
Pow2(k) == IF k = 0 THEN 1 ELSE 2 * Pow2(k - 1)

MinOf(a, b) == IF a < b THEN a ELSE b

\* C15: in every connection loop the backoff is between 1 and 60; with k
\* failures since the last established connection it is min(2^k, 60) when the
\* loop is about to connect (and still the previous value min(2^(k-1), 60)
\* while the k-th delay is slept); an established connection has backoff 1 and
\* no failures counted.
C15_Backoff ==
    \A i \in 1..Len(manager_tasks) :
        LET t == manager_tasks[i]
        IN /\ t.backoff >= INITIAL_BACKOFF /\ t.backoff <= MAX_BACKOFF
           /\ t.pc = "new" => (t.backoff = 1 /\ t.fails = 0)
           /\ t.pc = "reading" => (t.backoff = 1 /\ t.fails = 0)
           /\ t.pc = "connecting" => t.backoff = MinOf(Pow2(t.fails), 60)
           /\ t.pc = "sleeping" =>
                  (t.fails >= 1 /\ t.backoff = MinOf(Pow2(t.fails - 1), 60))

C15_Witness ==
    /\ Len(manager_tasks) = 1
    /\ manager_tasks[1].pc = "connecting"
    /\ manager_tasks[1].fails = 7
    /\ manager_tasks[1].backoff = 60
    /\ frames_read > 0

\* a frame the parser can turn into a payload
WellFormed(f) ==
    /\ f.valid_json
    /\ f.is_dict
    /\ f.combined => f.data_is_dict
    /\ f.symbol_is_str

\* C16: after any TEXT frame the task that read it is still reading on the
\* same connection; a frame that cannot be parsed changes nothing in the task
\* and creates no callback; a frame that parses creates exactly one callback
\* task, also while earlier callbacks are still running; and the end of a
\* callback, failed or not, changes no connection task.
C16_FramesAndCallbacks ==
    [][/\ last_frame' # last_frame =>
              LET lf == Val(last_frame')
              IN /\ manager_tasks'[lf.conn].pc = "reading"
                 /\ ~WellFormed(lf.frame) =>
                        (manager_tasks' = manager_tasks /\ dispatched' = dispatched)
                 /\ WellFormed(lf.frame) =>
                        (manager_tasks' = manager_tasks
                         /\ dispatched' = dispatched + 1)
       /\ cb_running' < cb_running => manager_tasks' = manager_tasks
      ]_vars

(***************************************************************************)
(* Snapshot poller                                                         *)
(***************************************************************************)
\* C17: run never returns unless it is cancelled; every new call of
\* poll_loop after the first comes out of the cooldown sleep of run; a failed
\* poll cycle goes into the fixed sleep, and that sleep is followed by the
\* next cycle (or by the cancellation).
C17_RestartAfterCooldown ==
    /\ [](rc_pc \in {"init", "polling", "sleep", "error_sleep", "cooldown",
                     "cancelled"})
    /\ [][rc_starts' # rc_starts => (rc_pc = "cooldown" /\ rc_pc' = "init")]_vars
    /\ [][rc_cycle_failures' # rc_cycle_failures => rc_pc' = "error_sleep"]_vars
    /\ [][(rc_pc = "error_sleep" /\ rc_pc' # rc_pc) =>
              rc_pc' \in {"polling", "cancelled"}]_vars

\* C18: in the dict fetch_symbol returns, every sub-call that did not fail has
\* been issued and has its fields in the result, a sub-call that failed has
\* none of its fields there, and a result that carries "error" holds only
\* symbol, timestamp and error.
C18_PartialFailure ==
    fs_out # None =>
        LET out == Val(fs_out)
        IN /\ \A c \in SubCallSet :
                 IF fs_fail[c]
                 THEN FieldsOf(c) \cap out.keys = {}
                 ELSE c \in out.issued /\ FieldsOf(c) \subseteq out.keys
           /\ "error" \in out.keys => out.keys = {"ts", "symbol", "error"}

(***************************************************************************)
(* Batch insert and its fallback                                           *)
(***************************************************************************)
BadRows == {i \in 1..Len(sv_items) : sv_items[i].bad}

Stored(i) == \E j \in 1..Len(metrics) : metrics[j].n = i /\ metrics[j].src = "ws"

\* C19: after a save_metrics_v3_async call in which exactly one row was bad,
\* every other row of the call is in the metrics table and the bad row is not.
C19_FallbackKeepsOthers ==
    (sv_state = "done" /\ Cardinality(BadRows) = 1) =>
        \A i \in 1..Len(sv_items) : Stored(i) <=> ~sv_items[i].bad

(***************************************************************************)
(* Writers of the metrics table                                            *)
(***************************************************************************)
\* the rows of the metrics table written by the pipeline consumer keep, for
\* every symbol, the order in which their events were produced and dequeued
PipelineRowsInOrder ==
    \A i, j \in 1..Len(metrics) :
        (/\ i < j
         /\ metrics[i].src = "ws" /\ metrics[j].src = "ws"
         /\ metrics[i].symbol = metrics[j].symbol) => metrics[i].n < metrics[j].n

\* C20: rows reach the metrics table only from the pipeline consumer (db_writer),
\* in per-symbol dequeue order, and no other task's rows are interleaved with them.
C20_SingleWriter ==
    /\ \A j \in 1..Len(metrics) : metrics[j].src = "ws"
    /\ PipelineRowsInOrder

(***************************************************************************)
(* The row db_writer_worker builds                                         *)
(***************************************************************************)
MergedWithSnapshot ==
    /\ fn_out # None
    /\ fn_args # None
    /\ "lookup_raises" \in DOMAIN Val(fn_args)
    /\ ~Val(fn_args).lookup_raises
    /\ Val(fn_args).rest # None

\* C21: when the symbol has a latest snapshot, the written row has the
\* snapshot's funding, long/short ratios and volume; its price is the streamed
\* price when one was parsed, and the snapshot's mark price when the stream
\* carried no price.
C21_SnapshotOverlay ==
    MergedWithSnapshot =>
        LET a == Val(fn_args)
            rest == Val(a.rest)
            row == Val(fn_out)
            streamed == FloatOrNone(a.item.Price)
        IN /\ row.funding = rest.funding_rate
           /\ row.global_ls_5m = rest.global_long_short_ratio
           /\ row.top_ls_accounts = rest.top_trader_account_ratio
           /\ row.top_ls_positions = rest.top_trader_long_short_ratio
           /\ row.volume_24h = rest.volume
           /\ streamed # None => row.price = streamed
           /\ (a.item.Price = None /\ rest.mark_price # None) =>
                  row.price = rest.mark_price

(***************************************************************************)
(* Fan-out of compute_quant_metrics                                        *)
(***************************************************************************)
InsideLimiter == lim_history + lim_compute

\* C22 as stated: the number of per-symbol computations past the limiter never
\* exceeds the maximum size of the connection pool.
C22_WithinPool == lim_pool_max > 0 => InsideLimiter <= lim_pool_max

\* C22: the number of per-symbol computations past the limiter never exceeds
\* max(1, min(24, 2 * pool size)), for any number of symbols.
C22_WithinLimiter ==
    lim_pool_max > 0 =>
        InsideLimiter <= MaxInt(1, MinInt(24, 2 * lim_pool_max))

C22_Witness ==
    /\ lim_pool_max = 13
    /\ InsideLimiter = 24
    /\ lim_compute > 0
    /\ lim_waiting > 0

(***************************************************************************)
(* Confluence records                                                      *)
(***************************************************************************)
ConfluenceDone ==
    fn_out # None /\ fn_args # None /\ "sigmap" \in DOMAIN Val(fn_args)

\* the symbol has a latest signal for each family the confluence score reads
FullSignals(sym) == ConfluenceFamilies \subseteq DOMAIN Val(fn_args).sigmap[sym]

\* C23: in the confluence stage, a symbol whose latest signals are missing or
\* partial gets no confluence record in that interval, and every other symbol
\* that has a diagnostics row gets one.
C23_SkipOnMissingData ==
    ConfluenceDone =>
        \A s \in DOMAIN Val(fn_args).diags :
            s \in DOMAIN Val(fn_out) <=> FullSignals(s)

(***************************************************************************)
(* Loop tasks                                                              *)
(***************************************************************************)
\* a loop task leaves an iteration only into its sleep, and ends only by a
\* cancellation that was requested
LoopKeepsRunning ==
    \A i \in DOMAIN loop_pc :
        /\ (loop_pc[i] = "iter" /\ loop_pc'[i] # "iter") =>
               (loop_pc'[i] = "sleep" \/ (loop_pc'[i] = "done" /\ loop_cancel[i]))
        /\ (loop_pc[i] = "sleep" /\ loop_pc'[i] # "sleep") =>
               (loop_pc'[i] = "iter" \/ (loop_pc'[i] = "done" /\ loop_cancel[i]))

\* C24: a loop run by safe_loop_runner goes on to its next iteration after any
\* number of failed iterations and ends only when it is cancelled; once all
\* loops are cancelled, wherever they are suspended, awaiting them completes.
C24_LoopsStopOnlyOnCancel ==
    /\ [][LoopKeepsRunning]_vars
    /\ (loops_main = "cancelling") ~> (loops_main = "gathered")

C24_Witness ==
    /\ loops_main = "gathered"
    /\ \E i \in DOMAIN loop_pc : loop_fails[i] = MaxLoopFails /\ loop_pc[i] = "done"

(***************************************************************************)
(* From features to regime and bias                                        *)
(***************************************************************************)
\* C25: when every stage loop has run once since the symbol's features came to
\* satisfy the accumulation conditions, in whatever order, the symbol's latest
\* regime is accumulation and its latest bias is bullish.
C25_AccumulationWithinInterval ==
    ch_intervals >= 1 =>
        (ch_regime = Some("accumulation") /\ ch_bias = Some("bullish"))

\* the chain can produce accumulation and bullish
C25_Reachable == ~(ch_regime = Some("accumulation") /\ ch_bias = Some("bullish"))

\* the mean of two latest family scores of a symbol, in units of 0.00001; a
\* family without a latest score counts as 0
MeanOfLatest(sym, f1, f2) ==
    LET fams == Val(fn_args).sigmap[sym]
        v(f) == IF f \in DOMAIN fams THEN fams[f] ELSE 0
    IN (v(f1) + v(f2)) * 5

\* a stored value (units of 0.0001) is the exact value (units of 0.00001)
\* rounded to four decimals
RoundedFrom(stored, exact) == Abs(stored * 10 - exact) <= 5

FamilyDone == fn_out # None /\ "families" \in DOMAIN Val(fn_out)

\* the weights of the six families, in tenths
StatedWeights ==
    [accumulation |-> 10, momentum |-> 10, orderflow |-> 10, distribution |-> 10,
     divergence |-> 9, exhaustion |-> 8]

RECURSIVE WeightOf(_, _)
WeightOf(F, w) ==
    IF F = {} THEN 0
    ELSE LET f == CHOOSE x \in F : TRUE IN w[f] + WeightOf(F \ {f}, w)

TrueFamilies == {f \in DOMAIN StatedWeights : Val(fn_out).families[f]}

\* C27 as stated: the confidence equals the weight of the true families divided
\* by the weight of all six families.
C27_ExactRatio ==
    FamilyDone =>
        Val(fn_out).confidence * WeightOf(DOMAIN StatedWeights, StatedWeights)
            = 1000 * WeightOf(TrueFamilies, StatedWeights)

\* C27: the confidence of a snapshot is the weight of the true families
\* divided by the weight of all six families (1.0, 1.0, 1.0, 1.0, 0.9, 0.8),
\* rounded to three decimals; it is within [0, 1], 0 exactly when no family is
\* true and 1 only when all six are true.
C27_RoundedRatio ==
    FamilyDone =>
        LET conf == Val(fn_out).confidence
            all == WeightOf(DOMAIN StatedWeights, StatedWeights)
            sat == WeightOf(TrueFamilies, StatedWeights)
        IN /\ 2 * Abs(conf * all - 1000 * sat) <= all
           /\ conf >= 0 /\ conf <= 1000
           /\ conf = 0 <=> TrueFamilies = {}
           /\ conf = 1000 => TrueFamilies = DOMAIN StatedWeights

C27_Witness ==
    /\ FamilyDone
    /\ TrueFamilies = {"distribution", "exhaustion", "divergence"}
    /\ Val(fn_out).confidence = 474

NewTransitions ==
    SubSeq(transitions', Len(transitions) + 1, Len(transitions'))

\* the step is the first evaluation of symbol s since a restart
FirstAfterRestart(s) ==
    /\ trend_restarts > 0
    /\ trend_task = "running"
    /\ s \in trend_first
    /\ s \notin trend_first'

\* C29: the remembered biases are cleared when the detector is restarted:
\* the first evaluation of a symbol after a stop and restart appends no
\* transition for it, whatever bias was remembered before the restart.
C29_RestartClearsBiases ==
    [][\A s \in Symbols :
          FirstAfterRestart(s) =>
             \A i \in 1..Len(NewTransitions) : NewTransitions[i].symbol # s]_vars

\* the symbols that are inside their REST call set, from the first sub-call
\* to the last
InCallSet == {i \in DOMAIN ft_pc : ft_pc[i] = "inside"}

\* C30: at most CONCURRENCY symbols are inside their REST call set at any
\* time; a fetch holds the limiter from its first sub-call to its last and
\* gives it back on success, on failure and on cancellation, so the limiter's
\* value is always CONCURRENCY less the number of symbols inside.
C30_LimiterHeldAndReleased ==
    /\ Cardinality(InCallSet) <= CONCURRENCY
    /\ rest_sem = CONCURRENCY - Cardinality(InCallSet)
    /\ \A i \in InCallSet : ft_call[i] \in 1..Len(SubCalls)

\* the limiter is full and another symbol waits, in a poll after the first:
\* every fetch of the earlier poll has left the limiter
C30_Witness ==
    /\ Cardinality(InCallSet) = CONCURRENCY
    /\ \E i \in FetchTasks : ft_pc[i] = "waiting"
    /\ ft_rounds > 1

SymbolsIn(rows) == {rows[i].symbol : i \in 1..Len(rows)}

QmFailed == {i \in DOMAIN qm_pc : qm_pc[i] = "failed"}
QmSucceeded == {i \in DOMAIN qm_pc : qm_pc[i] = "done"}

\* the store took every INSERT of the call
QmStoreSound ==
    /\ qm_returned # None
    /\ Len(qm_stored) > 0 \/ Val(qm_returned) = <<>>
    /\ \A k \in 1..Len(Val(qm_returned)) : ~Val(qm_returned)[k].bad

\* C31: in one compute_quant_metrics call a symbol whose history read or
\* feature computation fails is read once and not again, has no snapshot in
\* the returned list and none in storage, and the snapshots of all the
\* symbols that succeeded are returned, and stored when the store takes the
\* inserts.
C31_FailedSymbolSkipped ==
    /\ \A i \in DOMAIN qm_reads : qm_reads[i] <= 1
    /\ qm_returned # None =>
          /\ SymbolsIn(Val(qm_returned)) = QmSucceeded
          /\ Len(Val(qm_returned)) = Cardinality(QmSucceeded)
          /\ SymbolsIn(qm_stored) \cap QmFailed = {}
          /\ QmStoreSound => SymbolsIn(qm_stored) = QmSucceeded

\* a call has returned in which one symbol failed in the read or in the
\* computation and the snapshots of the two others are returned and stored
C31_Witness ==
    /\ qm_returned # None
    /\ Cardinality(QmFailed) = 1
    /\ Cardinality(SymbolsIn(qm_stored)) = 2

\* the rows of the call that are in the metrics table
StoredRows == {i \in 1..Len(sv_items) : Stored(i)}

\* C32: save_metrics_v3_async returns the number of rows it saved to storage;
\* a row whose INSERT failed in the batch attempt and in the row-by-row
\* fallback is not counted.
C32_ReturnsStoredCount ==
    sv_state = "done" => sv_saved = Cardinality(StoredRows)

\* a step in which connection task i goes to a ws_connect of its own loop
\* after a connection has ended (not its first connect)
Reconnects(i) ==
    /\ i \in 1..Len(manager_tasks) /\ i \in 1..Len(manager_tasks')
    /\ manager_tasks[i].pc \notin {"new", "connecting"}
    /\ manager_tasks'[i].pc = "connecting"

\* C33: between the end of one connection (failed connect, errored
\* connection, connection closed by the server) and the next connect attempt
\* the loop waits the backoff delay: every reconnect is the step that ends
\* the backoff sleep.
C33_BackoffBeforeReconnect ==
    [][\A i \in ConnIds : Reconnects(i) => manager_tasks[i].pc = "sleeping"]_vars

\* the rows the pipeline consumer has written
WrittenByWriter == {j \in 1..Len(metrics) : metrics[j].src = "ws"}

\* the number of payloads db_writer has taken from the queue
Dequeued == produced - dropped - Len(queue)

\* C34: once the consumer has exited after a cancellation, every payload it
\* took from the queue has been written exactly once, by a size/time flush or
\* by the final flush: none is missing from storage and none is there twice.
C34_DequeuedWrittenOnce ==
    w_pc = "done" =>
        /\ Cardinality(WrittenByWriter) = Dequeued
        /\ \A i, j \in WrittenByWriter : metrics[i].n = metrics[j].n => i = j

ManagerRunning ==
    manager_tasks # <<>> /\ manager_session # None /\ manager_stop # None

ManagerIdle ==
    manager_tasks = <<>> /\ manager_session = None /\ manager_stop = None

\* C35: whenever no start_all or stop_all is in progress the stream manager
\* is either running (tasks, an open session and a stop event) or idle (no
\* tasks, no session, no stop event), whatever symbol list start_all got; a
\* session is never open while stop_all would return as a no-op.
C35_RunningOrIdle ==
    stop_pc = "idle" => ManagerRunning \/ ManagerIdle

CancelRequested ==
    \E t \in DOMAIN sd_tasks : sd_tasks[t] \in {"cancelling", "flushing"}

\* C36: at shutdown the stream manager has been stopped before any tracked
\* task is cancelled, and every cancelled task, the pipeline consumer with
\* its final flush included, has finished before the pool is closed.
C36_ShutdownOrder ==
    /\ sd_pc \in {"cancel", "gather", "close", "done"} =>
          sd_ws \in {"off", "stopped"}
    /\ CancelRequested => sd_pc = "gather" /\ sd_ws \in {"off", "stopped"}
    /\ sd_pool = "closed" =>
          /\ \A t \in DOMAIN sd_tasks : sd_tasks[t] = "done"
          /\ sd_final_flushes = 1 => ~sd_buffer

\* the pool has been closed after a shutdown that stopped the manager and
\* in which db_writer made its final flush
C36_Witness ==
    /\ sd_pool = "closed"
    /\ sd_ws = "stopped"
    /\ sd_final_flushes = 1

InsideInit == {c \in DOMAIN in_pc : in_pc[c] \in {"creating", "tables"}}

UsedPool == {c \in DOMAIN in_pc : in_pc[c] \in {"use", "done"}}

\* C37: when several tasks invoke a persistence operation while the pool is
\* missing or closed, at most one of them is inside the initialization at a
\* time, it is the holder of the init lock, and one pool is created between
\* them: every caller that goes on to use the pool uses that one.
C37_OnePoolCreated ==
    /\ Cardinality(InsideInit) <= 1
    /\ \A c \in InsideInit : in_lock = c
    /\ in_created <= 1
    /\ UsedPool # {} => in_created = 1 /\ in_pool = "open"

\* all callers have used the pool, which was created once, and two of them
\* had called init_db_async
C37_Witness ==
    /\ \A c \in Callers : in_pc[c] = "done"
    /\ in_created = 1
    /\ Cardinality({c \in Callers : in_attempt[c] > 0}) >= 2

\* C38: no persistence operation runs a query on the pool before
\* init_db_async has created the tables: a caller of ensure_connected does
\* not use the pool while another task is inside init_db_async.
C38_NoUseBeforeTables ==
    /\ in_early = {}
    /\ \A c \in DOMAIN in_pc : in_pc[c] = "use" => InsideInit = {}

\* the step is an evaluation of the context scoring loop over a stored signal
\* batch
ContextEvaluated == "context" \notin ch_ran /\ "context" \in ch_ran' /\ ch_sig # None

\* the bias the evaluation gives when the query returns the row of family fam
\* as the latest signal row
BiasWith(fam) ==
    OutRow([signal_conf |-> Some(Val(ch_sig)[fam].confidence),
            confluence_score |-> IF ch_conf = None THEN None
                                 ELSE Some(Val(ch_conf).confluence_score),
            regime |-> ch_regime]).bias

\* C39: the bias an evaluation stores is determined by the stored signal
\* batch, confluence record and regime record: it is the same whichever of
\* the six family rows of the latest batch, which share one timestamp, the
\* query returns.
C39_DeterministicBias ==
    [][ContextEvaluated =>
          \A fam \in DOMAIN Val(ch_sig) : ch_bias' = Some(BiasWith(fam))]_vars

====
